---------------------------- MODULE Spec2Model ----------------------------
(***************************************************************************)
(* Model of the rule-driven routing gateway of stokilo/wdns                *)
(* (macos-listener): the proxy registry (ProxyManager), the three copies   *)
(* of the pattern matcher, the routing decision points of ProxyManager,    *)
(* TrafficInterceptor and RealTrafficProxy, and the bounded log of         *)
(* intercepted connections.                                                *)
(*                                                                         *)
(* Rust strings are modelled as sequences of one-character strings, so     *)
(* that starts_with / ends_with / contains / split / trim are computed on  *)
(* the characters as the standard library computes them.                   *)
(***************************************************************************)
EXTENDS Integers, Sequences, FiniteSets, TLC

VARIABLES
    proxy_manager,            \* the ProxyManager value (main.rs:88-95)
    ret,                      \* the last call made and what it returned
    returned_proxy_ids,       \* history: ids returned by add_proxy so far
    returned_rule_ids,        \* history: ids returned by add_rule so far
    removed_proxy_ids,        \* history: ids a remove_proxy call removed
    intercepted_connections,  \* TrafficInterceptor.intercepted_connections
    connection_counter,       \* TrafficInterceptor.connection_counter
    appended,                 \* history: every entry pushed to the log, in order
    is_running,               \* TrafficInterceptor.is_running
    start_pc,                 \* where each caller of start() stands
    supervisor,               \* the interception_loop thread of each successful start
    loops,                    \* the DNS, TCP and UDP threads of each successful start
    stopped,                  \* history: has stop() been called
    conns,                    \* the SOCKS5 server's connection handler tasks
    accepting,                \* is the SOCKS5 server's accept loop running
    app,                      \* MacosListenerApp.traffic_interceptor and its registry
    relay,                    \* one relay between a client and an upstream stream
    dns,                      \* the DnsResolver::resolve_hosts calls in flight
    dial,                     \* one dial of an upstream SOCKS5 proxy by a client
    threads,                  \* the DNS, TCP and UDP loop of one start, lock by lock
    wire                      \* the bytes a SOCKS5 client has sent, and those unread

vars == << proxy_manager, ret, returned_proxy_ids, returned_rule_ids,
           removed_proxy_ids, intercepted_connections, connection_counter,
           appended, is_running, start_pc, supervisor, loops, stopped, conns,
           accepting, app, relay, dns, dial, threads, wire >>

lifeVars == << is_running, start_pc, supervisor, loops, stopped >>

socksVars == << conns, accepting >>

appVars == << app, relay, dns, dial, threads, wire >>

registryVars == << proxy_manager, returned_proxy_ids, returned_rule_ids,
                   removed_proxy_ids >>

logVars == << intercepted_connections, connection_counter, appended >>

---------------------------------------------------------------------------
(* Bounds of the model *)

\* add_proxy is called at most MaxProxyId times (ids 1..MaxProxyId)
MaxProxyId == 2
\* add_rule is called at most MaxRuleId times (ids 1..MaxRuleId)
MaxRuleId == 2
\* longest generated pattern handed to the matchers
MaxPatLen == 4
\* longest generated hostname handed to the matchers
MaxHostLen == 4
\* calls of record_intercepted_connection made beyond the log's capacity
ExtraRecords == 3
\* chunks each peer of a relay sends
MaxChunks == 2
\* DnsResolver::resolve_hosts calls in flight at once
NumRequests == 2
\* hosts of one resolve_hosts call
MaxHosts == 2
\* threads that call TrafficInterceptor::start, once each
NumCallers == 2
\* datagrams and matched snapshot entries the interception loops handle
MaxItems == 2
\* connections the SOCKS5 server accepts
MaxConns == 2
\* longest generated question section handed to the DNS decoder
MaxBodyLen == 4
\* most labels of a generated domain name
MaxLabels == 2
\* longest label of a generated domain name
MaxLabelLen == 2

---------------------------------------------------------------------------
(* Option<T> *)

None == << >>

Some(x) == << x >>

---------------------------------------------------------------------------
(* str operations of the Rust standard library, on character sequences *)

starts_with(s, p) == Len(p) <= Len(s) /\ SubSeq(s, 1, Len(p)) = p

ends_with(s, p) == Len(p) <= Len(s) /\ SubSeq(s, Len(s) - Len(p) + 1, Len(s)) = p

contains(s, p) == \E i \in 1..(Len(s) - Len(p) + 1) : SubSeq(s, i, i + Len(p) - 1) = p

\* position of the first occurrence of the non-empty p in s, 0 when there is none
find_first(s, p) ==
    LET hits == { i \in 1..(Len(s) - Len(p) + 1) : SubSeq(s, i, i + Len(p) - 1) = p }
    IN  IF hits = {} THEN 0 ELSE CHOOSE i \in hits : \A j \in hits : i <= j

\* str::split(p).collect(): the pieces between the non-overlapping occurrences of p
RECURSIVE split(_, _)
split(s, p) ==
    LET i == find_first(s, p)
    IN  IF i = 0 THEN << s >>
        ELSE << SubSeq(s, 1, i - 1) >> \o split(SubSeq(s, i + Len(p), Len(s)), p)

\* str::trim(): leading and trailing white space removed
RECURSIVE trim(_)
trim(s) ==
    IF s = << >> THEN s
    ELSE IF Head(s) = " " THEN trim(Tail(s))
    ELSE IF s[Len(s)] = " " THEN trim(SubSeq(s, 1, Len(s) - 1))
    ELSE s

Digits == << "0", "1", "2", "3", "4", "5", "6", "7", "8", "9" >>

\* u8::to_string(): decimal digits, no leading zeros
RECURSIVE octet_to_string(_)
octet_to_string(n) ==
    IF n < 10 THEN << Digits[n + 1] >>
    ELSE octet_to_string(n \div 10) \o << Digits[(n % 10) + 1] >>

\* Ipv4Addr::to_string(): the four octets in decimal, joined by dots
ip_to_string(ip) ==
    octet_to_string(ip[1]) \o << "." >> \o octet_to_string(ip[2]) \o << "." >>
        \o octet_to_string(ip[3]) \o << "." >> \o octet_to_string(ip[4])

STAR == << "*" >>

STAR_DOT == << "*", "." >>

DOT_STAR == << ".", "*" >>

SEMICOLON == << ";" >>

---------------------------------------------------------------------------
(* PatternMatcher: the three copies of matches_pattern *)

\* ProxyManager::matches_pattern (main.rs)
PM_matches_pattern(pattern, hostname) ==
    IF pattern = hostname THEN TRUE
    ELSE IF starts_with(pattern, STAR_DOT)
         THEN ends_with(hostname, SubSeq(pattern, 3, Len(pattern)))
    ELSE IF ends_with(pattern, DOT_STAR)
         THEN starts_with(hostname, SubSeq(pattern, 1, Len(pattern) - 2))
    ELSE IF contains(pattern, STAR) /\ Len(split(pattern, STAR)) = 2
         THEN /\ starts_with(hostname, split(pattern, STAR)[1])
              /\ ends_with(hostname, split(pattern, STAR)[2])
    ELSE FALSE

\* TrafficInterceptor::matches_pattern (traffic_interceptor_helpers.rs)
TI_matches_pattern(pattern, hostname) ==
    IF pattern = hostname THEN TRUE
    ELSE IF starts_with(pattern, STAR_DOT)
         THEN ends_with(hostname, SubSeq(pattern, 3, Len(pattern)))
    ELSE IF ends_with(pattern, DOT_STAR)
         THEN starts_with(hostname, SubSeq(pattern, 1, Len(pattern) - 2))
    ELSE IF /\ contains(pattern, DOT_STAR)
            /\ ~starts_with(pattern, STAR)
            /\ ~ends_with(pattern, STAR)
            /\ Len(split(pattern, DOT_STAR)) = 2
         THEN starts_with(hostname, split(pattern, DOT_STAR)[1])
    ELSE IF contains(pattern, STAR) /\ Len(split(pattern, STAR)) = 2
         THEN /\ starts_with(hostname, split(pattern, STAR)[1])
              /\ ends_with(hostname, split(pattern, STAR)[2])
    ELSE FALSE

\* RealTrafficProxy::matches_pattern (real_proxy.rs)
RP_matches_pattern(pattern, hostname) ==
    IF pattern = hostname THEN TRUE
    ELSE IF starts_with(pattern, STAR_DOT)
         THEN ends_with(hostname, SubSeq(pattern, 3, Len(pattern)))
    ELSE IF ends_with(pattern, DOT_STAR)
         THEN starts_with(hostname, SubSeq(pattern, 1, Len(pattern) - 2))
    ELSE IF /\ contains(pattern, DOT_STAR)
            /\ ~starts_with(pattern, STAR)
            /\ ~ends_with(pattern, STAR)
            /\ Len(split(pattern, DOT_STAR)) = 2
         THEN starts_with(hostname, split(pattern, DOT_STAR)[1])
    ELSE IF contains(pattern, STAR) /\ Len(split(pattern, STAR)) = 2
         THEN /\ starts_with(hostname, split(pattern, STAR)[1])
              /\ ends_with(hostname, split(pattern, STAR)[2])
    ELSE FALSE

\* RealTrafficProxy::quick_pattern_match, the pre-filter's matcher
quick_pattern_match(pattern, hostname) ==
    IF starts_with(pattern, STAR_DOT)
    THEN ends_with(hostname, SubSeq(pattern, 3, Len(pattern)))
    ELSE IF contains(pattern, DOT_STAR) /\ ~starts_with(pattern, STAR)
         THEN starts_with(hostname, split(pattern, DOT_STAR)[1])
    ELSE IF pattern = hostname THEN TRUE
    ELSE IF ends_with(pattern, DOT_STAR)
         THEN starts_with(hostname, SubSeq(pattern, 1, Len(pattern) - 2))
    ELSE FALSE

\* the non-empty trimmed sub-patterns of a rule's pattern, in order
RECURSIVE non_empty_trimmed(_)
non_empty_trimmed(parts) ==
    IF parts = << >> THEN << >>
    ELSE IF trim(Head(parts)) = << >> THEN non_empty_trimmed(Tail(parts))
    ELSE << trim(Head(parts)) >> \o non_empty_trimmed(Tail(parts))

sub_patterns(pattern) == non_empty_trimmed(split(pattern, SEMICOLON))

\* RealTrafficProxy::could_match_any_rule
could_match_any_rule(hostname, rules) ==
    \E i \in 1..Len(rules) :
        /\ rules[i].enabled
        /\ \E k \in 1..Len(sub_patterns(rules[i].pattern)) :
               quick_pattern_match(sub_patterns(rules[i].pattern)[k], hostname)

---------------------------------------------------------------------------
(* Hostname derivation from an IPv4 destination << a, b, c, d >> *)

LOCALHOST == << "l", "o", "c", "a", "l", "h", "o", "s", "t" >>

PRIVATE_PREFIX == << "p", "r", "i", "v", "a", "t", "e", "-" >>

CGNAT_PREFIX == << "1", "0", "0", ".", "6", "4", "." >>

\* Ipv4Addr::is_loopback: 127.0.0.0/8
is_loopback(ip) == ip[1] = 127

\* Ipv4Addr::is_private: 10.0.0.0/8, 172.16.0.0/12, 192.168.0.0/16
is_private(ip) ==
    \/ ip[1] = 10
    \/ ip[1] = 172 /\ ip[2] >= 16 /\ ip[2] <= 31
    \/ ip[1] = 192 /\ ip[2] = 168

\* reverse_dns_lookup (the copies in traffic_interceptor_helpers.rs and
\* real_proxy.rs are the same text)
reverse_dns_lookup(ip) ==
    IF ip[1] = 192 /\ ip[2] = 168 THEN Some(PRIVATE_PREFIX \o ip_to_string(ip))
    ELSE IF ip[1] = 10 THEN Some(PRIVATE_PREFIX \o ip_to_string(ip))
    ELSE IF ip[1] = 172 /\ ip[2] >= 16 /\ ip[2] <= 31
         THEN Some(PRIVATE_PREFIX \o ip_to_string(ip))
    ELSE IF ip[1] = 100 /\ ip[2] = 64
         THEN Some(CGNAT_PREFIX \o octet_to_string(ip[3]) \o << "." >>
                       \o octet_to_string(ip[4]))
    ELSE None

\* resolve_ip_to_hostname (same text in both copies)
resolve_ip_to_hostname(ip) ==
    IF is_loopback(ip) THEN Some(LOCALHOST)
    ELSE IF is_private(ip) THEN reverse_dns_lookup(ip)
    ELSE reverse_dns_lookup(ip)

\* resolve_ip_to_hostname(..).unwrap_or_else(|| ip.to_string())
derived_hostname(ip) ==
    IF resolve_ip_to_hostname(ip) = None THEN ip_to_string(ip)
    ELSE resolve_ip_to_hostname(ip)[1]

---------------------------------------------------------------------------
(* ProxyRegistry: ProxyManager and its operations.  A ProxyConfig is kept  *)
(* as [id, enabled] and a ProxyRule as [id, pattern, enabled, proxy_id]:   *)
(* name, host, port, kind and credentials are carried along by the code    *)
(* and never read by the operations modelled here.                         *)

\* ProxyManager::default()
default_manager ==
    [ proxies |-> << >>, rules |-> << >>, next_proxy_id |-> 1,
      next_rule_id |-> 1, global_enabled |-> FALSE ]

\* Vec::remove(pos)
remove_at(seq, pos) == SubSeq(seq, 1, pos - 1) \o SubSeq(seq, pos + 1, Len(seq))

\* iter().position(|x| x.id == id): 0 stands for None
position_of(seq, id) ==
    LET hits == { i \in 1..Len(seq) : seq[i].id = id }
    IN  IF hits = {} THEN 0 ELSE CHOOSE i \in hits : \A j \in hits : i <= j

\* add_proxy taking its id from the number of proxies held, not from the counter
add_proxy_id_from_len(m) ==
    [ manager |-> [ m EXCEPT !.proxies = Append(@, [ id |-> Len(m.proxies) + 1,
                                                     enabled |-> TRUE ]),
                             !.next_proxy_id = @ + 1 ],
      result  |-> Len(m.proxies) + 1 ]

\* ProxyManager::add_proxy: the new manager and the id returned
add_proxy(m) ==
    [ manager |-> [ m EXCEPT !.proxies = Append(@, [ id |-> m.next_proxy_id,
                                                     enabled |-> TRUE ]),
                             !.next_proxy_id = @ + 1 ],
      result  |-> m.next_proxy_id ]

\* ProxyManager::add_rule: the new manager and the id returned
add_rule(m, pattern, proxy_id) ==
    [ manager |-> [ m EXCEPT !.rules = Append(@, [ id |-> m.next_rule_id,
                                                   pattern |-> pattern,
                                                   enabled |-> TRUE,
                                                   proxy_id |-> proxy_id ]),
                             !.next_rule_id = @ + 1 ],
      result  |-> m.next_rule_id ]

\* remove_proxy without the cascade over the rules
remove_proxy_no_cascade(m, id) ==
    LET pos == position_of(m.proxies, id)
    IN  IF pos # 0
        THEN [ manager |-> [ m EXCEPT !.proxies = remove_at(@, pos) ],
               result  |-> TRUE ]
        ELSE [ manager |-> m, result |-> FALSE ]

\* ProxyManager::remove_proxy
remove_proxy(m, id) ==
    LET pos == position_of(m.proxies, id)
        \* rules.retain(|r| r.proxy_id != id)
        other(r) == r.proxy_id # id
    IN  IF pos # 0
        THEN [ manager |-> [ m EXCEPT !.proxies = remove_at(@, pos),
                                      !.rules = SelectSeq(@, other) ],
               result  |-> TRUE ]
        ELSE [ manager |-> m, result |-> FALSE ]

\* remove_rule that hands the id of the removed rule out again
remove_rule_reusing_id(m, id) ==
    LET pos == position_of(m.rules, id)
    IN  IF pos # 0
        THEN [ manager |-> [ m EXCEPT !.rules = remove_at(@, pos),
                                      !.next_rule_id = id ],
               result  |-> TRUE ]
        ELSE [ manager |-> m, result |-> FALSE ]

\* ProxyManager::remove_rule
remove_rule(m, id) ==
    LET pos == position_of(m.rules, id)
    IN  IF pos # 0
        THEN [ manager |-> [ m EXCEPT !.rules = remove_at(@, pos) ],
               result  |-> TRUE ]
        ELSE [ manager |-> m, result |-> FALSE ]

\* proxies.iter().find(|p| p.id == proxy_id && p.enabled)
find_enabled_proxy(m, proxy_id) ==
    LET hits == { i \in 1..Len(m.proxies) :
                    m.proxies[i].id = proxy_id /\ m.proxies[i].enabled }
    IN  IF hits = {} THEN None
        ELSE Some(m.proxies[CHOOSE i \in hits : \A j \in hits : i <= j])

---------------------------------------------------------------------------
(* The routing decision points *)

\* the rule loop of ProxyManager::get_proxy_for_connection, from rule i on
RECURSIVE PM_rule_loop(_, _, _)
PM_rule_loop(m, hostname, i) ==
    IF i > Len(m.rules) THEN None
    ELSE IF ~m.rules[i].enabled THEN PM_rule_loop(m, hostname, i + 1)
    ELSE IF PM_matches_pattern(m.rules[i].pattern, hostname)
         THEN find_enabled_proxy(m, m.rules[i].proxy_id)
    ELSE PM_rule_loop(m, hostname, i + 1)

\* the hostname ProxyManager::get_proxy_for_connection matches rules against:
\* the literal address
PM_hostname(remote_addr) == ip_to_string(remote_addr)

\* get_proxy_for_connection without its global_enabled check
get_proxy_for_connection_unguarded(m, remote_addr) ==
    PM_rule_loop(m, PM_hostname(remote_addr), 1)

\* ProxyManager::get_proxy_for_connection
get_proxy_for_connection(m, remote_addr) ==
    IF ~m.global_enabled THEN None
    ELSE PM_rule_loop(m, PM_hostname(remote_addr), 1)

\* the rule loop shared by TrafficInterceptor::should_proxy_domain and
\* should_proxy_connection, from rule i on
RECURSIVE TI_rule_loop(_, _, _)
TI_rule_loop(m, hostname, i) ==
    IF i > Len(m.rules) THEN None
    ELSE IF ~m.rules[i].enabled THEN TI_rule_loop(m, hostname, i + 1)
    ELSE IF /\ TI_matches_pattern(m.rules[i].pattern, hostname)
            /\ find_enabled_proxy(m, m.rules[i].proxy_id) # None
         THEN find_enabled_proxy(m, m.rules[i].proxy_id)
    ELSE TI_rule_loop(m, hostname, i + 1)

\* TrafficInterceptor::should_proxy_domain
TI_should_proxy_domain(m, domain) ==
    IF ~m.global_enabled THEN None
    ELSE TI_rule_loop(m, domain, 1)

\* TrafficInterceptor::should_proxy_connection
TI_should_proxy_connection(m, target_addr) ==
    IF ~m.global_enabled THEN None
    ELSE TI_rule_loop(m, derived_hostname(target_addr), 1)

\* does any non-empty trimmed sub-pattern of the rule match the hostname
RP_any_match(rule, hostname) ==
    \E k \in 1..Len(sub_patterns(rule.pattern)) :
        RP_matches_pattern(sub_patterns(rule.pattern)[k], hostname)

\* the rule loop of RealTrafficProxy::should_proxy_connection and
\* should_proxy_domain, from rule i on
RECURSIVE RP_rule_loop(_, _, _)
RP_rule_loop(m, hostname, i) ==
    IF i > Len(m.rules) THEN None
    ELSE IF ~m.rules[i].enabled THEN RP_rule_loop(m, hostname, i + 1)
    ELSE IF /\ RP_any_match(m.rules[i], hostname)
            /\ find_enabled_proxy(m, m.rules[i].proxy_id) # None
         THEN find_enabled_proxy(m, m.rules[i].proxy_id)
    ELSE RP_rule_loop(m, hostname, i + 1)

\* RealTrafficProxy::should_proxy_connection
RP_should_proxy_connection(m, destination) ==
    IF ~m.global_enabled THEN None
    ELSE IF m.rules = << >> THEN None
    ELSE IF ~could_match_any_rule(derived_hostname(destination), m.rules) THEN None
    ELSE RP_rule_loop(m, derived_hostname(destination), 1)

\* RealTrafficProxy::should_proxy_domain
RP_should_proxy_domain(m, domain) ==
    IF ~m.global_enabled \/ m.rules = << >> THEN None
    ELSE RP_rule_loop(m, domain, 1)

---------------------------------------------------------------------------
(* The DNS wire format.  A packet is a sequence of bytes 0..255.  The      *)
(* names handled here are ASCII, for which str::as_bytes and               *)
(* String::from_utf8_lossy map characters and bytes one to one.            *)

ASCII_LOWER ==
    << "a", "b", "c", "d", "e", "f", "g", "h", "i", "j", "k", "l", "m",
       "n", "o", "p", "q", "r", "s", "t", "u", "v", "w", "x", "y", "z" >>

ASCII_DIGIT == << "0", "1", "2", "3", "4", "5", "6", "7", "8", "9" >>

\* the byte of an ASCII character
byte_of(c) ==
    CASE \E i \in 1..26 : ASCII_LOWER[i] = c ->
             96 + (CHOOSE i \in 1..26 : ASCII_LOWER[i] = c)
      [] \E i \in 1..10 : ASCII_DIGIT[i] = c ->
             47 + (CHOOSE i \in 1..10 : ASCII_DIGIT[i] = c)
      [] c = "." -> 46
      [] c = "-" -> 45
      [] c = "*" -> 42
      [] c = ";" -> 59
      [] c = " " -> 32

\* the character String::from_utf8_lossy gives for one byte standing alone
char_of(b) ==
    CASE b \in 97..122 -> ASCII_LOWER[b - 96]
      [] b \in 48..57 -> ASCII_DIGIT[b - 47]
      [] b = 46 -> "."
      [] b = 45 -> "-"
      [] b = 42 -> "*"
      [] b = 59 -> ";"
      [] b = 32 -> " "
      [] b >= 128 -> "U+FFFD"
      [] OTHER -> "\\x" \o ToString(b)

\* str::as_bytes
as_bytes(str) == [ i \in 1..Len(str) |-> byte_of(str[i]) ]

\* String::from_utf8_lossy
from_utf8_lossy(bytes) == [ i \in 1..Len(bytes) |-> char_of(bytes[i]) ]

\* the fixed header of build_dns_query_packet: ID 0x1234, flags 0x0100,
\* QDCOUNT 1, ANCOUNT, NSCOUNT, ARCOUNT 0
QUERY_HEADER == << 18, 52, 1, 0, 0, 1, 0, 0, 0, 0, 0, 0 >>

\* the loop over domain.split('.'): each part's length as u8, then its bytes
RECURSIVE push_labels(_)
push_labels(parts) ==
    IF parts = << >> THEN << >>
    ELSE << Len(Head(parts)) % 256 >> \o as_bytes(Head(parts))
             \o push_labels(Tail(parts))

\* build_dns_query_packet (it never returns Err)
build_dns_query_packet(domain) ==
    QUERY_HEADER \o push_labels(split(domain, << "." >>)) \o << 0 >>
        \o << 0, 1 >> \o << 0, 1 >>

\* the label loop of extract_domain_from_dns_packet joining the labels
\* without the '.' between them
RECURSIVE extract_labels_unjoined(_, _, _)
extract_labels_unjoined(packet, offset, domain) ==
    IF ~(offset < Len(packet)) THEN domain
    ELSE IF packet[offset + 1] = 0 THEN domain
    ELSE IF offset + packet[offset + 1] >= Len(packet) THEN domain
    ELSE extract_labels_unjoined(packet, offset + packet[offset + 1] + 1,
             domain \o from_utf8_lossy(SubSeq(packet, offset + 2,
                                              offset + 1 + packet[offset + 1])))

\* the label loop of extract_domain_from_dns_packet; offset counts from 0 as
\* in the code, so the byte at offset is packet[offset + 1]
RECURSIVE extract_labels(_, _, _)
extract_labels(packet, offset, domain) ==
    IF ~(offset < Len(packet)) THEN domain
    ELSE IF packet[offset + 1] = 0 THEN domain
    ELSE IF offset + packet[offset + 1] >= Len(packet) THEN domain
    ELSE extract_labels(packet, offset + packet[offset + 1] + 1,
             (IF domain # << >> THEN domain \o << "." >> ELSE domain)
                 \o from_utf8_lossy(SubSeq(packet, offset + 2,
                                           offset + 1 + packet[offset + 1])))

\* TrafficInterceptor::extract_domain_from_dns_packet
extract_domain_from_dns_packet(packet) ==
    IF Len(packet) < 12 THEN None
    ELSE IF extract_labels(packet, 12, << >>) = << >> THEN None
    ELSE Some(extract_labels(packet, 12, << >>))

\* the label loop of RealTrafficProxy::extract_domain_from_dns_packet
RECURSIVE RP_extract_labels(_, _, _)
RP_extract_labels(packet, offset, domain) ==
    IF ~(offset < Len(packet)) THEN domain
    ELSE IF packet[offset + 1] = 0 THEN domain
    ELSE IF offset + packet[offset + 1] >= Len(packet) THEN domain
    ELSE RP_extract_labels(packet, offset + packet[offset + 1] + 1,
             (IF domain # << >> THEN domain \o << "." >> ELSE domain)
                 \o from_utf8_lossy(SubSeq(packet, offset + 2,
                                           offset + 1 + packet[offset + 1])))

\* RealTrafficProxy::extract_domain_from_dns_packet
RP_extract_domain_from_dns_packet(packet) ==
    IF Len(packet) < 12 THEN None
    ELSE IF RP_extract_labels(packet, 12, << >>) = << >> THEN None
    ELSE Some(RP_extract_labels(packet, 12, << >>))

---------------------------------------------------------------------------
(* Inputs *)

P_10_0_0_STAR == << "1", "0", ".", "0", ".", "0", ".", "*" >>

P_STAR == << "*" >>

P_MULTI == << "*", ".", "x", ".", "c", "o", "m", ";", "1", "0", ".", "0", ".", "0", ".", "*" >>

H_10_0_0_5 == << "1", "0", ".", "0", ".", "0", ".", "5" >>

H_8_8_8_8 == << "8", ".", "8", ".", "8", ".", "8" >>

H_A_X_COM == << "a", ".", "x", ".", "c", "o", "m" >>

\* the patterns of the rules the control plane adds
RulePatterns == { P_10_0_0_STAR, P_STAR, P_MULTI }

\* the destination addresses seen by the connection decision points
Addrs == { << 10, 0, 0, 5 >>, << 8, 8, 8, 8 >>, << 127, 0, 0, 1 >> }

\* the names seen by the DNS decision points
Domains == { H_10_0_0_5, H_8_8_8_8, H_A_X_COM }

---------------------------------------------------------------------------
(* The orchestrator and the SOCKS5 server before anything was started *)

\* the threads that call start()
Callers == 1..NumCallers

\* a successful start() spawns one interception_loop thread: the g-th
\* successful start spawns generation g
Generations == 1..NumCallers

\* the three loops interception_loop spawns
LoopThreads == { "dns", "tcp", "udp" }

\* TrafficInterceptor::new: not running, nothing spawned
InitLifeVars ==
    /\ is_running = FALSE
    /\ start_pc = [ c \in Callers |-> "idle" ]
    /\ supervisor = [ g \in Generations |-> "none" ]
    /\ loops = [ g \in Generations |-> [ k \in LoopThreads |-> "none" ] ]
    /\ stopped = FALSE

\* a connection slot no client has connected on yet
NoConn ==
    [ pc |-> "none", greeting |-> << >>, request |-> << >>, sent |-> << >>,
      request_read |-> FALSE, dest_dialed |-> FALSE, result |-> "" ]

\* Socks5Server::run after the listener is bound: accepting, no connection yet
InitSocksVars ==
    /\ conns = [ i \in 1..MaxConns |-> NoConn ]
    /\ accepting = TRUE

\* the two ends of a relay
Peers == { "client", "upstream" }

\* a relay that was not started
NoRelay ==
    [ kind |-> "", pc |-> "none",
      pending |-> [ p \in Peers |-> 0 ], closed |-> [ p \in Peers |-> FALSE ],
      sent |-> [ p \in Peers |-> 0 ], forwarded |-> [ p \in Peers |-> 0 ],
      buffered |-> [ p \in Peers |-> 0 ] ]

\* a resolve_hosts call that was not made
NoRequest ==
    [ pc |-> "none", hosts |-> << >>, status |-> << >>,
      results |-> << >>, total_resolved |-> 0, total_errors |-> 0 ]

\* a dial that was not made
NoDial ==
    [ pc |-> "none", client |-> "", username |-> None, password |-> None,
      target |-> << >>, choice |-> << >>, auth |-> << >>, reply |-> << >>,
      payload |-> << >>,
      greeting |-> << >>, auth_request |-> << >>, connect_request |-> << >>,
      result |-> "", unread |-> << >> ]

\* a loop thread that was not spawned: where it stands, the locks it holds,
\* the connection id it drew, the domain it decoded, the proxy the registry
\* gave it, the status it is about to record and whether a SOCKS5 handshake
\* and CONNECT completed for the flow it handles
NoThread ==
    [ pc |-> "none", holds |-> {}, connection_id |-> 0, domain |-> None,
      proxy |-> None, status |-> "", tunnelled |-> FALSE ]

\* a SOCKS5 client that has sent nothing: the greeting and the request it
\* will send, the bytes still on their way and the bytes that arrived at the
\* server's socket and were not read yet
NoWire ==
    [ greeting |-> << >>, request |-> << >>, in_flight |-> << >>,
      unread |-> << >> ]

\* no loop thread followed lock by lock and no client stream yet
InitFlowVars ==
    /\ threads = [ k \in LoopThreads |-> NoThread ]
    /\ wire = NoWire

\* MacosListenerApp::default: no interceptor; no relay, no resolve_hosts call
\* and no dial yet
InitAppVars ==
    /\ app = [ traffic_interceptor |-> None ]
    /\ relay = NoRelay
    /\ dns = [ r \in 1..NumRequests |-> NoRequest ]
    /\ dial = NoDial
    /\ InitFlowVars

---------------------------------------------------------------------------
(* The registry and its callers *)

\* The last call: its name, its arguments and what it returned.  Every field
\* is always present and keeps one type; a call sets the fields it uses.
\*   id: the id passed to or returned by a registry operation, or the
\*       connection id recorded;  proxy_id, pattern: arguments of add_rule;
\*   addr: the destination address;  name: the hostname or domain;
\*   ok: a boolean result;  proxy: an Option<ProxyConfig> result;
\*   log: the Vec<InterceptedConnection> returned to a reader;
\*   packet: the bytes handed to a decoder or received from a socket;
\*   domain: an Option<String> result;  status: the outcome of a handler;
\*   upstream: the bytes written to the upstream;  response: the bytes
\*       read back from it;  reply: the bytes sent back to the client
NoCall ==
    [ op |-> "new", id |-> 0, proxy_id |-> 0, pattern |-> << >>,
      addr |-> << 0, 0, 0, 0 >>, name |-> << >>, ok |-> FALSE,
      proxy |-> None, log |-> << >>, packet |-> << >>, domain |-> None,
      status |-> "", upstream |-> << >>, response |-> << >>, reply |-> << >> ]

Init ==
    /\ proxy_manager = default_manager
    /\ ret = NoCall
    /\ returned_proxy_ids = {}
    /\ returned_rule_ids = {}
    /\ removed_proxy_ids = {}
    /\ intercepted_connections = << >>
    /\ connection_counter = 0
    /\ appended = << >>
    /\ InitLifeVars
    /\ InitSocksVars
    /\ InitAppVars

\* "Add Proxy" (main.rs:1226-1240)
AddProxy ==
    /\ proxy_manager.next_proxy_id <= MaxProxyId
    /\ proxy_manager' = add_proxy(proxy_manager).manager
    /\ ret' = [ NoCall EXCEPT !.op = "add_proxy",
                                !.id = add_proxy(proxy_manager).result ]
    /\ returned_proxy_ids' = returned_proxy_ids \cup { add_proxy(proxy_manager).result }
    /\ UNCHANGED << returned_rule_ids, removed_proxy_ids, logVars, lifeVars, socksVars, appVars >>

\* "Add Rule" (main.rs:1333-1347); the proxy id is whatever the caller passes
AddRule(pattern, proxy_id) ==
    /\ proxy_manager.next_rule_id <= MaxRuleId
    /\ proxy_manager' = add_rule(proxy_manager, pattern, proxy_id).manager
    /\ ret' = [ NoCall EXCEPT !.op = "add_rule", !.pattern = pattern,
                                !.proxy_id = proxy_id,
                                !.id = add_rule(proxy_manager, pattern, proxy_id).result ]
    /\ returned_rule_ids' =
           returned_rule_ids \cup { add_rule(proxy_manager, pattern, proxy_id).result }
    /\ UNCHANGED << returned_proxy_ids, removed_proxy_ids, logVars, lifeVars, socksVars, appVars >>

\* "Remove" in the proxy list (main.rs:1186-1188)
RemoveProxy(id) ==
    /\ proxy_manager' = remove_proxy(proxy_manager, id).manager
    /\ ret' = [ NoCall EXCEPT !.op = "remove_proxy", !.id = id,
                                !.ok = remove_proxy(proxy_manager, id).result ]
    /\ removed_proxy_ids' =
           IF remove_proxy(proxy_manager, id).result
           THEN removed_proxy_ids \cup { id } ELSE removed_proxy_ids
    /\ UNCHANGED << returned_proxy_ids, returned_rule_ids, logVars, lifeVars, socksVars, appVars >>

\* "Remove" in the rule list (main.rs:1290-1292)
RemoveRule(id) ==
    /\ proxy_manager' = remove_rule(proxy_manager, id).manager
    /\ ret' = [ NoCall EXCEPT !.op = "remove_rule", !.id = id,
                                !.ok = remove_rule(proxy_manager, id).result ]
    /\ UNCHANGED << returned_proxy_ids, returned_rule_ids, removed_proxy_ids, logVars, lifeVars, socksVars, appVars >>

\* the "Enabled" checkbox of a proxy (main.rs:1189-1193)
ToggleProxy(id) ==
    /\ position_of(proxy_manager.proxies, id) # 0
    /\ proxy_manager' =
           [ proxy_manager EXCEPT
               !.proxies[position_of(proxy_manager.proxies, id)].enabled = ~@ ]
    /\ ret' = [ NoCall EXCEPT !.op = "toggle_proxy", !.id = id ]
    /\ UNCHANGED << returned_proxy_ids, returned_rule_ids, removed_proxy_ids, logVars, lifeVars, socksVars, appVars >>

\* the "Enabled" checkbox of a rule (main.rs:1293-1297)
ToggleRule(id) ==
    /\ position_of(proxy_manager.rules, id) # 0
    /\ proxy_manager' =
           [ proxy_manager EXCEPT
               !.rules[position_of(proxy_manager.rules, id)].enabled = ~@ ]
    /\ ret' = [ NoCall EXCEPT !.op = "toggle_rule", !.id = id ]
    /\ UNCHANGED << returned_proxy_ids, returned_rule_ids, removed_proxy_ids, logVars, lifeVars, socksVars, appVars >>

\* the "Enable Proxy Routing" checkbox (main.rs:719)
ToggleGlobal ==
    /\ proxy_manager' = [ proxy_manager EXCEPT !.global_enabled = ~@ ]
    /\ ret' = [ NoCall EXCEPT !.op = "toggle_global" ]
    /\ UNCHANGED << returned_proxy_ids, returned_rule_ids, removed_proxy_ids, logVars, lifeVars, socksVars, appVars >>

\* a caller asks ProxyManager::get_proxy_for_connection (main.rs:926-927)
GetProxyForConnection(addr) ==
    /\ ret' = [ NoCall EXCEPT !.op = "get_proxy_for_connection", !.addr = addr,
                                !.proxy = get_proxy_for_connection(proxy_manager, addr) ]
    /\ UNCHANGED << registryVars, logVars, lifeVars, socksVars, appVars >>

\* the DNS loop asks TrafficInterceptor::should_proxy_domain
TIShouldProxyDomain(domain) ==
    /\ ret' = [ NoCall EXCEPT !.op = "TI_should_proxy_domain", !.name = domain,
                                !.proxy = TI_should_proxy_domain(proxy_manager, domain) ]
    /\ UNCHANGED << registryVars, logVars, lifeVars, socksVars, appVars >>

\* the TCP or UDP loop asks TrafficInterceptor::should_proxy_connection
TIShouldProxyConnection(addr) ==
    /\ ret' = [ NoCall EXCEPT !.op = "TI_should_proxy_connection", !.addr = addr,
                                !.proxy = TI_should_proxy_connection(proxy_manager, addr) ]
    /\ UNCHANGED << registryVars, logVars, lifeVars, socksVars, appVars >>

\* RealTrafficProxy's TCP handler asks should_proxy_connection
RPShouldProxyConnection(addr) ==
    /\ ret' = [ NoCall EXCEPT !.op = "RP_should_proxy_connection", !.addr = addr,
                                !.proxy = RP_should_proxy_connection(proxy_manager, addr) ]
    /\ UNCHANGED << registryVars, logVars, lifeVars, socksVars, appVars >>

\* RealTrafficProxy's DNS capture asks should_proxy_domain
RPShouldProxyDomain(domain) ==
    /\ ret' = [ NoCall EXCEPT !.op = "RP_should_proxy_domain", !.name = domain,
                                !.proxy = RP_should_proxy_domain(proxy_manager, domain) ]
    /\ UNCHANGED << registryVars, logVars, lifeVars, socksVars, appVars >>

Next ==
    \/ AddProxy
    \/ \E pattern \in RulePatterns, proxy_id \in 1..MaxProxyId : AddRule(pattern, proxy_id)
    \/ \E id \in 1..MaxProxyId : RemoveProxy(id)
    \/ \E id \in 1..MaxRuleId : RemoveRule(id)
    \/ \E id \in 1..MaxProxyId : ToggleProxy(id)
    \/ \E id \in 1..MaxRuleId : ToggleRule(id)
    \/ ToggleGlobal
    \/ \E addr \in Addrs : GetProxyForConnection(addr)
    \/ \E domain \in Domains : TIShouldProxyDomain(domain)
    \/ \E addr \in Addrs : TIShouldProxyConnection(addr)
    \/ \E addr \in Addrs : RPShouldProxyConnection(addr)
    \/ \E domain \in Domains : RPShouldProxyDomain(domain)

Spec == Init /\ [][Next]_vars

---------------------------------------------------------------------------
(* The matchers on their own: every copy applied to every pattern and name *)

P_STAR_X_COM == << "*", ".", "x", ".", "c", "o", "m" >>

P_A_STAR_B == << "a", "*", "b" >>

P_10_0_STAR_5 == << "1", "0", ".", "0", ".", "*", ".", "5" >>

H_X_COM == << "x", ".", "c", "o", "m" >>

H_AXXB == << "a", "X", "X", "b" >>

H_AXXC == << "a", "X", "X", "c" >>

H_10_0_9_7 == << "1", "0", ".", "0", ".", "9", ".", "7" >>

\* every sequence over S of length at most n
SeqsUpTo(S, n) == UNION { [ 1..k -> S ] : k \in 0..n }

MatchPatterns ==
    SeqsUpTo({ "a", ".", "*" }, MaxPatLen)
        \cup { P_STAR_X_COM, P_A_STAR_B, P_10_0_STAR_5, P_10_0_0_STAR, P_STAR }

MatchHostnames ==
    SeqsUpTo({ "a", "." }, MaxHostLen)
        \cup { H_A_X_COM, H_X_COM, H_AXXB, H_AXXC, H_10_0_9_7, H_10_0_0_5 }

\* a caller holds a pattern and a hostname and has not yet asked a matcher
InitMatch ==
    /\ proxy_manager = default_manager
    /\ ret \in { [ NoCall EXCEPT !.op = "input", !.pattern = pattern, !.name = hostname ] :
                   pattern \in MatchPatterns, hostname \in MatchHostnames }
    /\ returned_proxy_ids = {}
    /\ returned_rule_ids = {}
    /\ removed_proxy_ids = {}
    /\ intercepted_connections = << >>
    /\ connection_counter = 0
    /\ appended = << >>
    /\ InitLifeVars
    /\ InitSocksVars
    /\ InitAppVars

MatchPM ==
    /\ ret.op = "input"
    /\ ret' = [ ret EXCEPT !.op = "PM_matches_pattern",
                           !.ok = PM_matches_pattern(ret.pattern, ret.name) ]
    /\ UNCHANGED << registryVars, logVars, lifeVars, socksVars, appVars >>

MatchTI ==
    /\ ret.op = "input"
    /\ ret' = [ ret EXCEPT !.op = "TI_matches_pattern",
                           !.ok = TI_matches_pattern(ret.pattern, ret.name) ]
    /\ UNCHANGED << registryVars, logVars, lifeVars, socksVars, appVars >>

MatchRP ==
    /\ ret.op = "input"
    /\ ret' = [ ret EXCEPT !.op = "RP_matches_pattern",
                           !.ok = RP_matches_pattern(ret.pattern, ret.name) ]
    /\ UNCHANGED << registryVars, logVars, lifeVars, socksVars, appVars >>

NextMatch ==
    \/ MatchPM
    \/ MatchTI
    \/ MatchRP

SpecMatch == InitMatch /\ [][NextMatch]_vars

---------------------------------------------------------------------------
(* The log of intercepted connections.  An entry is kept as [id, status]:  *)
(* record_intercepted_connection builds the rest of the record from its    *)
(* arguments and constants and reads none of it.                           *)

\* "Keep only last 1000 connections"
LOG_CAPACITY == 1000

\* record_intercepted_connection with the bound tested before the push is counted
record_intercepted_connection_off_by_one(log, connection_id, status) ==
    LET pushed == Append(log, [ id |-> connection_id, status |-> status ])
    IN  IF Len(pushed) >= LOG_CAPACITY THEN Tail(pushed) ELSE pushed

\* record_intercepted_connection: push, then drop the first entry when the
\* log is longer than the capacity; both under one hold of the log's lock
record_intercepted_connection(log, connection_id, status) ==
    LET pushed == Append(log, [ id |-> connection_id, status |-> status ])
    IN  IF Len(pushed) > LOG_CAPACITY THEN Tail(pushed) ELSE pushed

\* One loop (DNS: traffic_interceptor.rs:166-194, TCP and UDP:
\* traffic_interceptor_helpers.rs:32-43, 79-90) draws the next connection id
\* and records a proxied flow.  The draw and the push are two critical
\* sections of the thread; they are one step here, the log depending only on
\* the order in which the pushes take the log's lock.
LoopRecords(t) ==
    /\ Len(appended) < LOG_CAPACITY + ExtraRecords
    /\ connection_counter' = connection_counter + 1
    /\ intercepted_connections' =
           record_intercepted_connection(intercepted_connections,
                                         connection_counter + 1, "Proxied")
    /\ appended' = Append(appended, [ id |-> connection_counter + 1,
                                      status |-> "Proxied" ])
    /\ ret' = [ NoCall EXCEPT !.op = "record_intercepted_connection",
                                !.id = connection_counter + 1 ]
    /\ UNCHANGED << registryVars, lifeVars, socksVars, appVars >>

\* TrafficInterceptor::get_intercepted_connections: a clone taken under the lock
GetInterceptedConnections ==
    /\ ret' = [ NoCall EXCEPT !.op = "get_intercepted_connections",
                                !.log = intercepted_connections ]
    /\ UNCHANGED << registryVars, logVars, lifeVars, socksVars, appVars >>

NextLog ==
    \/ \E t \in LoopThreads : LoopRecords(t)
    \/ GetInterceptedConnections

SpecLog == Init /\ [][NextLog]_vars

---------------------------------------------------------------------------
(* The DNS codec on its own: build_dns_query_packet followed by the        *)
(* decoder, and both copies of the decoder on raw packets                  *)

\* everything but the last call, as Init leaves it
InitNoCalls ==
    /\ proxy_manager = default_manager
    /\ returned_proxy_ids = {}
    /\ returned_rule_ids = {}
    /\ removed_proxy_ids = {}
    /\ intercepted_connections = << >>
    /\ connection_counter = 0
    /\ appended = << >>
    /\ InitLifeVars
    /\ InitSocksVars

EXAMPLE_COM == << "e", "x", "a", "m", "p", "l", "e", ".", "c", "o", "m" >>

\* the longest label the DNS wire format allows
MAX_LABEL == [ i \in 1..63 |-> "a" ]

\* the non-empty labels generated
Labels == SeqsUpTo({ "a", "b" }, MaxLabelLen) \ { << >> }

\* the names made of n generated labels
RECURSIVE NamesOf(_)
NamesOf(n) ==
    IF n = 1 THEN Labels
    ELSE { name \o << "." >> \o label : name \in NamesOf(n - 1), label \in Labels }

\* the domains handed to build_dns_query_packet
CodecDomains ==
    UNION { NamesOf(n) : n \in 1..MaxLabels }
        \cup { EXAMPLE_COM, MAX_LABEL, MAX_LABEL \o << "." >> \o MAX_LABEL }

\* the bytes of the generated question sections: a terminator, two label
\* lengths and a letter
BodyBytes == { 0, 1, 2, 97 }

\* the packets handed to the decoders: a header followed by a generated
\* question section, and the packets cut inside the header
CodecPackets ==
    { QUERY_HEADER \o body : body \in SeqsUpTo(BodyBytes, MaxBodyLen) }
        \cup { SubSeq(QUERY_HEADER, 1, n) : n \in 0..11 }

\* a caller holds a domain to encode or a packet to decode
InitCodec ==
    /\ ret \in { [ NoCall EXCEPT !.op = "domain", !.name = domain ] :
                   domain \in CodecDomains }
            \cup { [ NoCall EXCEPT !.op = "packet", !.packet = packet ] :
                     packet \in CodecPackets }
    /\ InitNoCalls
    /\ InitAppVars

\* build_dns_query_packet(domain), then extract_domain_from_dns_packet on
\* the bytes produced
BuildThenExtract ==
    /\ ret.op = "domain"
    /\ ret' = [ ret EXCEPT
                  !.op = "build_then_extract",
                  !.packet = build_dns_query_packet(ret.name),
                  !.domain = extract_domain_from_dns_packet(
                                 build_dns_query_packet(ret.name)) ]
    /\ UNCHANGED << registryVars, logVars, lifeVars, socksVars, appVars >>

\* TrafficInterceptor::extract_domain_from_dns_packet on a received packet
ExtractDomain ==
    /\ ret.op = "packet"
    /\ ret' = [ ret EXCEPT !.op = "extract_domain_from_dns_packet",
                           !.domain = extract_domain_from_dns_packet(ret.packet) ]
    /\ UNCHANGED << registryVars, logVars, lifeVars, socksVars, appVars >>

\* RealTrafficProxy::extract_domain_from_dns_packet on a received packet
RPExtractDomain ==
    /\ ret.op = "packet"
    /\ ret' = [ ret EXCEPT !.op = "RP_extract_domain_from_dns_packet",
                           !.domain = RP_extract_domain_from_dns_packet(ret.packet) ]
    /\ UNCHANGED << registryVars, logVars, lifeVars, socksVars, appVars >>

NextCodec ==
    \/ BuildThenExtract
    \/ ExtractDomain
    \/ RPExtractDomain

SpecCodec == InitCodec /\ [][NextCodec]_vars

---------------------------------------------------------------------------
(* The orchestrator: start(), stop(), the interception_loop thread and the *)
(* DNS, TCP and UDP loops it spawns.  A loop of generation g is at         *)
(*   "none"   not spawned,      "bind"  DNS: about to bind its socket,     *)
(*   "poll"   about to test is_running,                                    *)
(*   "recv"   DNS: inside recv_from,   "scan"  TCP, UDP: inside a snapshot,*)
(*   "exited" returned Ok after seeing the flag cleared,                   *)
(*   "bind_failed", "recv_failed", "item_failed"  returned on an error.    *)

\* the loops that have not returned
Active == { "bind", "poll", "recv", "scan" }

\* start() with the test of the flag left out
start_without_check(running) == [ is_running |-> TRUE, spawn |-> TRUE ]

\* TrafficInterceptor::start, the critical section on is_running: the flag
\* it leaves and whether the caller goes on to spawn
start(running) ==
    IF running THEN [ is_running |-> TRUE, spawn |-> FALSE ]
    ELSE [ is_running |-> TRUE, spawn |-> TRUE ]

\* a registry in which every name is routed to proxy 1
ROUTE_ALL ==
    [ add_rule(add_proxy(default_manager).manager, P_STAR, 1).manager
        EXCEPT !.global_enabled = TRUE ]

\* a query for "a.b" as a resolver library sends it, with its own id
QUERY_A_B == << 171, 205, 1, 0, 0, 1, 0, 0, 0, 0, 0, 0,
                1, 97, 1, 98, 0, 0, 1, 0, 1 >>

\* the datagrams the DNS loop receives: two queries for "a.b" (one carrying
\* the id build_dns_query_packet uses) and a header without a question
DnsPackets == { QUERY_A_B, build_dns_query_packet(<< "a", ".", "b" >>), QUERY_HEADER }

\* what a read from the upstream returns
DnsResponses == { << 171, 205, 129, 128 >>, << 18, 52, 129, 128 >> }

\* Result<Vec<u8>, _> of route_dns_through_socks5 and of
\* forward_to_system_dns: None stands for Err, Some(response) for Ok(response)
UpstreamResults == { None } \cup { Some(response) : response \in DnsResponses }

\* One pass of the DNS loop's body for a received datagram
\* (traffic_interceptor.rs:165-221), given the result of the upstream call it
\* makes (route_dns_through_socks5 for a routed name, forward_to_system_dns
\* otherwise) and whether send_to succeeds: stage is where the handling
\* ended, status the InterceptionStatus recorded ("" when nothing is
\* recorded), upstream the bytes written to the resolver, reply the bytes
\* sent to the client, survives whether the loop goes on
handle_dns_datagram(m, packet, result, send_ok) ==
    LET domain == extract_domain_from_dns_packet(packet)
        proxy  == TI_should_proxy_domain(m, domain[1])
        gone   == [ stage |-> "", status |-> "", upstream |-> << >>,
                    reply |-> << >>, survives |-> TRUE ]
    IN  IF domain = None
        THEN [ gone EXCEPT !.stage = "undecodable" ]
        ELSE IF proxy # None
        THEN IF result = None
             THEN [ gone EXCEPT !.stage = "route_failed", !.status = "Failed" ]
             ELSE IF ~send_ok
             THEN [ gone EXCEPT !.stage = "send_failed", !.survives = FALSE,
                                !.upstream = build_dns_query_packet(domain[1]) ]
             ELSE [ gone EXCEPT !.stage = "proxied", !.status = "Proxied",
                                !.upstream = build_dns_query_packet(domain[1]),
                                !.reply = result[1] ]
        ELSE IF result = None
             THEN [ gone EXCEPT !.stage = "forward_failed", !.upstream = packet ]
             ELSE IF ~send_ok
             THEN [ gone EXCEPT !.stage = "send_failed", !.survives = FALSE,
                                !.upstream = packet ]
             ELSE [ gone EXCEPT !.stage = "direct", !.status = "Direct",
                                !.upstream = packet, !.reply = result[1] ]

\* the log after a handler's record, if it makes one
recorded(log, connection_id, status) ==
    IF status = "" THEN log
    ELSE record_intercepted_connection(log, connection_id, status)

\* the orchestrator is built over a registry the control plane has filled
InitLife ==
    /\ proxy_manager \in { default_manager, ROUTE_ALL }
    /\ ret = NoCall
    /\ returned_proxy_ids = {}
    /\ returned_rule_ids = {}
    /\ removed_proxy_ids = {}
    /\ intercepted_connections = << >>
    /\ connection_counter = 0
    /\ appended = << >>
    /\ InitLifeVars
    /\ InitSocksVars
    /\ InitAppVars

\* a caller enters start(): the test and the set of is_running, under the
\* flag's lock (traffic_interceptor.rs:48-53)
Start(c) ==
    /\ start_pc[c] = "idle"
    /\ is_running' = start(is_running).is_running
    /\ start_pc' = [ start_pc EXCEPT
                       ![c] = IF start(is_running).spawn THEN "spawning" ELSE "noop" ]
    /\ ret' = [ NoCall EXCEPT !.op = "start", !.id = c,
                                !.ok = start(is_running).spawn ]
    /\ UNCHANGED << registryVars, logVars, supervisor, loops, stopped, socksVars, appVars >>

\* the caller that set the flag spawns the interception_loop thread and
\* returns Ok (traffic_interceptor.rs:67-79)
StartSpawns(c) ==
    /\ start_pc[c] = "spawning"
    /\ \E g \in Generations :
           /\ supervisor[g] = "none"
           /\ \A h \in Generations : h < g => supervisor[h] # "none"
           /\ supervisor' = [ supervisor EXCEPT ![g] = "spawning" ]
    /\ start_pc' = [ start_pc EXCEPT ![c] = "spawned" ]
    /\ ret' = [ NoCall EXCEPT !.op = "start_spawns" ]
    /\ UNCHANGED << registryVars, logVars, is_running, loops, stopped, socksVars, appVars >>

\* TrafficInterceptor::stop
Stop ==
    /\ is_running' = FALSE
    /\ stopped' = TRUE
    /\ ret' = [ NoCall EXCEPT !.op = "stop" ]
    /\ UNCHANGED << registryVars, logVars, start_pc, supervisor, loops, socksVars, appVars >>

\* interception_loop spawns the DNS, the TCP and the UDP thread
\* (traffic_interceptor.rs:104-137)
SupervisorSpawns(g) ==
    /\ supervisor[g] = "spawning"
    /\ loops' = [ loops EXCEPT ![g] = [ k \in LoopThreads |->
                                          IF k = "dns" THEN "bind" ELSE "poll" ] ]
    /\ supervisor' = [ supervisor EXCEPT ![g] = "monitor" ]
    /\ ret' = [ NoCall EXCEPT !.op = "interception_loop" ]
    /\ UNCHANGED << registryVars, logVars, is_running, start_pc, stopped, socksVars, appVars >>

\* interception_loop polls the flag every 100 ms and returns once it is clear
\* (traffic_interceptor.rs:140-145)
SupervisorExits(g) ==
    /\ supervisor[g] = "monitor"
    /\ ~is_running
    /\ supervisor' = [ supervisor EXCEPT ![g] = "exited" ]
    /\ ret' = [ NoCall EXCEPT !.op = "interception_loop_exit" ]
    /\ UNCHANGED << registryVars, logVars, is_running, start_pc, loops, stopped,
                    socksVars, appVars >>

\* does some DNS loop hold the socket bound to 127.0.0.1:5353
port_in_use == \E g \in Generations : loops[g]["dns"] \in { "poll", "recv" }

\* the DNS loop binds its socket (traffic_interceptor.rs:158); the bind
\* fails when the port is taken, by an earlier DNS loop or by anyone else
DnsBind(g, bound) ==
    /\ loops[g]["dns"] = "bind"
    /\ bound => ~port_in_use
    /\ loops' = [ loops EXCEPT ![g]["dns"] = IF bound THEN "poll" ELSE "bind_failed" ]
    /\ ret' = [ NoCall EXCEPT !.op = "dns_bind", !.ok = bound ]
    /\ UNCHANGED << registryVars, logVars, is_running, start_pc, supervisor,
                    stopped, socksVars, appVars >>

\* the DNS loop tests the flag and, if set, enters recv_from, which has no
\* timeout (traffic_interceptor.rs:163-164)
DnsPoll(g) ==
    /\ loops[g]["dns"] = "poll"
    /\ loops' = [ loops EXCEPT ![g]["dns"] = IF is_running THEN "recv" ELSE "exited" ]
    /\ ret' = [ NoCall EXCEPT !.op = "dns_poll" ]
    /\ UNCHANGED << registryVars, logVars, is_running, start_pc, supervisor,
                    stopped, socksVars, appVars >>

\* a datagram arrives and the DNS loop handles it
\* (traffic_interceptor.rs:165-221)
DnsDatagram(g, packet, result, send_ok) ==
    LET done == handle_dns_datagram(proxy_manager, packet, result, send_ok)
        entry == [ id |-> connection_counter + 1, status |-> done.status ]
    IN  /\ loops[g]["dns"] = "recv"
        /\ connection_counter < MaxItems
        /\ connection_counter' = connection_counter + 1
        /\ intercepted_connections' =
               recorded(intercepted_connections, connection_counter + 1, done.status)
        /\ appended' = IF done.status = "" THEN appended ELSE Append(appended, entry)
        /\ loops' = [ loops EXCEPT
                        ![g]["dns"] = IF done.survives THEN "poll" ELSE "item_failed" ]
        /\ ret' = [ NoCall EXCEPT !.op = "dns_datagram", !.id = connection_counter + 1,
                                    !.packet = packet, !.status = done.stage,
                                    !.upstream = done.upstream,
                                    !.response = IF result = None THEN << >>
                                                 ELSE result[1],
                                    !.reply = done.reply, !.ok = done.survives ]
        /\ UNCHANGED << registryVars, is_running, start_pc, supervisor, stopped,
                        socksVars, appVars >>

\* recv_from returns an error: the loop breaks (traffic_interceptor.rs:223-228)
DnsRecvError(g) ==
    /\ loops[g]["dns"] = "recv"
    /\ loops' = [ loops EXCEPT ![g]["dns"] = "recv_failed" ]
    /\ ret' = [ NoCall EXCEPT !.op = "dns_recv_error" ]
    /\ UNCHANGED << registryVars, logVars, is_running, start_pc, supervisor,
                    stopped, socksVars, appVars >>

\* the TCP or UDP loop tests the flag and, if set, takes a snapshot of the
\* system's connections (traffic_interceptor_helpers.rs:18-20, 65-67)
ScanPoll(g, k) ==
    /\ k # "dns"
    /\ loops[g][k] = "poll"
    /\ loops' = [ loops EXCEPT ![g][k] = IF is_running THEN "scan" ELSE "exited" ]
    /\ ret' = [ NoCall EXCEPT !.op = "scan_poll" ]
    /\ UNCHANGED << registryVars, logVars, is_running, start_pc, supervisor,
                    stopped, socksVars, appVars >>

\* the loop handles one entry of the snapshot
\* (traffic_interceptor_helpers.rs:21-45, 68-92): route_tcp_through_socks5
\* may fail, route_udp_through_socks5 never does
ScanEntry(g, k, addr, route_ok) ==
    LET proxy  == TI_should_proxy_connection(proxy_manager, addr)
        failed == proxy # None /\ k = "tcp" /\ ~route_ok
        record == proxy # None /\ ~failed
    IN  /\ k # "dns"
        /\ loops[g][k] = "scan"
        /\ record => connection_counter < MaxItems
        /\ connection_counter' = IF record THEN connection_counter + 1
                                 ELSE connection_counter
        /\ intercepted_connections' =
               IF record THEN recorded(intercepted_connections,
                                       connection_counter + 1, "Proxied")
               ELSE intercepted_connections
        /\ appended' = IF record
                       THEN Append(appended, [ id |-> connection_counter + 1,
                                               status |-> "Proxied" ])
                       ELSE appended
        /\ loops' = [ loops EXCEPT ![g][k] = IF failed THEN "item_failed" ELSE "scan" ]
        /\ ret' = [ NoCall EXCEPT !.op = "scan_entry", !.name = << k >>,
                                    !.addr = addr, !.proxy = proxy, !.ok = ~failed ]
        /\ UNCHANGED << registryVars, is_running, start_pc, supervisor, stopped,
                        socksVars, appVars >>

\* the snapshot is exhausted and the loop sleeps 100 ms
\* (traffic_interceptor_helpers.rs:48, 95)
ScanSleep(g, k) ==
    /\ k # "dns"
    /\ loops[g][k] = "scan"
    /\ loops' = [ loops EXCEPT ![g][k] = "poll" ]
    /\ ret' = [ NoCall EXCEPT !.op = "scan_sleep" ]
    /\ UNCHANGED << registryVars, logVars, is_running, start_pc, supervisor,
                    stopped, socksVars, appVars >>

\* no datagram arrives and the snapshots list no connection
NextLife ==
    \/ \E c \in Callers : Start(c)
    \/ \E c \in Callers : StartSpawns(c)
    \/ Stop
    \/ \E g \in Generations : SupervisorSpawns(g)
    \/ \E g \in Generations : SupervisorExits(g)
    \/ \E g \in Generations, bound \in BOOLEAN : DnsBind(g, bound)
    \/ \E g \in Generations : DnsPoll(g)
    \/ \E g \in Generations : DnsRecvError(g)
    \/ \E g \in Generations, k \in LoopThreads : ScanPoll(g, k)
    \/ \E g \in Generations, k \in LoopThreads : ScanSleep(g, k)

SpecLife == InitLife /\ [][NextLife]_vars

\* The threads are scheduled fairly: a caller that set the flag goes on to
\* spawn, and every thread takes the steps it can take without waiting for
\* the network.  Nothing promises that start() or stop() is ever called.
SpecLifeFair ==
    /\ SpecLife
    /\ \A c \in Callers : WF_vars(StartSpawns(c))
    /\ \A g \in Generations :
           /\ WF_vars(SupervisorSpawns(g))
           /\ WF_vars(SupervisorExits(g))
           /\ WF_vars(DnsBind(g, FALSE) \/ DnsBind(g, TRUE))
           /\ WF_vars(DnsPoll(g))
           /\ \A k \in LoopThreads : WF_vars(ScanPoll(g, k)) /\ WF_vars(ScanSleep(g, k))

\* one start() has returned and interception_loop has spawned its threads
InitLoops ==
    /\ proxy_manager \in { default_manager, ROUTE_ALL }
    /\ ret = NoCall
    /\ returned_proxy_ids = {}
    /\ returned_rule_ids = {}
    /\ removed_proxy_ids = {}
    /\ intercepted_connections = << >>
    /\ connection_counter = 0
    /\ appended = << >>
    /\ is_running = TRUE
    /\ start_pc = [ c \in Callers |-> IF c = 1 THEN "spawned" ELSE "idle" ]
    /\ supervisor = [ g \in Generations |-> IF g = 1 THEN "monitor" ELSE "none" ]
    /\ loops = [ g \in Generations |-> [ k \in LoopThreads |->
                   IF g # 1 THEN "none" ELSE IF k = "dns" THEN "bind" ELSE "poll" ] ]
    /\ stopped = FALSE
    /\ InitSocksVars
    /\ InitAppVars

\* the loops of one start() at work, until and after stop()
NextLoops ==
    \/ Stop
    \/ \E g \in Generations : SupervisorExits(g)
    \/ \E g \in Generations, bound \in BOOLEAN : DnsBind(g, bound)
    \/ \E g \in Generations : DnsPoll(g)
    \/ \E g \in Generations, packet \in DnsPackets, result \in UpstreamResults,
          send_ok \in BOOLEAN : DnsDatagram(g, packet, result, send_ok)
    \/ \E g \in Generations : DnsRecvError(g)
    \/ \E g \in Generations, k \in LoopThreads : ScanPoll(g, k)
    \/ \E g \in Generations, k \in LoopThreads, addr \in Addrs, route_ok \in BOOLEAN :
           ScanEntry(g, k, addr, route_ok)
    \/ \E g \in Generations, k \in LoopThreads : ScanSleep(g, k)

SpecLoops == InitLoops /\ [][NextLoops]_vars

\* The threads are scheduled fairly: every step a thread can take without
\* waiting for the network is eventually taken.  Nothing promises that a
\* datagram ever arrives.
SpecLoopsFair ==
    /\ SpecLoops
    /\ \A g \in Generations :
           /\ WF_vars(SupervisorExits(g))
           /\ WF_vars(DnsBind(g, FALSE) \/ DnsBind(g, TRUE))
           /\ WF_vars(DnsPoll(g))
           /\ \A k \in LoopThreads : WF_vars(ScanPoll(g, k)) /\ WF_vars(ScanSleep(g, k))

---------------------------------------------------------------------------
(* The SOCKS5 server (src/src/socks5.rs).  A connection is at               *)
(*   "none"      not accepted yet,    "greeting"  its handler was spawned,   *)
(*   "request"   the method was selected,  "relaying"  in proxy_data,        *)
(*   "closed"    its handler returned, with `result`.                        *)
(* `sent` is what the handler wrote to the client; buffer[k] of the code is  *)
(* buffer[k + 1] here.                                                       *)

\* what the error logging of Socks5Server::run does to the accept loop when
\* an accept fails or a handler returns: nothing
accept_loop_stops_on_error(result) == result = "ok"

accept_loop_continues(result) == TRUE

\* what one read of a greeting returns
Greetings ==
    { << 5, 0 >>, << 4, 1, 0 >>, << 71, 69, 84 >>, << 5, 2, 0 >>, << 5, 2, 2 >>,
      << 5, 1, 2 >>, << 5, 2, 2, 0 >> }

\* the methods a greeting offers, as far as they were read
offered_methods(buffer) ==
    { buffer[j] : j \in { k \in 3..Len(buffer) : k <= 2 + buffer[2] } }

\* a method selection that never looks at the methods offered
handle_greeting_any_method(buffer) ==
    IF Len(buffer) < 3
    THEN [ result |-> "greeting_too_short", reply |-> << >> ]
    ELSE IF buffer[1] # 5
    THEN [ result |-> "bad_version", reply |-> << >> ]
    ELSE [ result |-> "ok", reply |-> << 5, 0 >> ]

\* handle_socks5_connection up to the method selection: how it goes on and
\* what it writes to the client
handle_greeting(buffer) ==
    LET n == Len(buffer) IN
    IF n < 3
    THEN [ result |-> "greeting_too_short", reply |-> << >> ]
    ELSE IF buffer[1] # 5
    THEN [ result |-> IF buffer = << 71, 69, 84 >> THEN "http_request"
                      ELSE "bad_version",
           reply |-> << >> ]
    ELSE IF n < 2 + buffer[2]
    THEN [ result |-> "bad_greeting_length", reply |-> << >> ]
    ELSE IF ~ \E i \in 0..(buffer[2] - 1) : buffer[2 + i + 1] = 0
    THEN [ result |-> "no_acceptable_method", reply |-> << 5, 255 >> ]
    ELSE [ result |-> "ok", reply |-> << 5, 0 >> ]

\* the address the resolver answers with
RESOLVED_IP == << 10, 0, 0, 1 >>

\* resolver.lookup_ip(domain): Err, or Ok with the addresses found
Lookups == { None, Some(<< >>), Some(<< RESOLVED_IP >>) }

IPV6_REQUEST ==
    << 5, 1, 0, 4, 0, 0, 0, 0, 0, 0, 0, 0, 0, 0, 0, 0, 0, 0, 0, 1, 0, 80 >>

\* what one read of a request returns
Requests ==
    { << 5, 1, 0, 1, 127, 0, 0 >>,
      << 4, 1, 0, 1, 127, 0, 0, 1, 0, 80 >>,
      << 5, 2, 0, 1, 127, 0, 0, 1, 0, 80 >>,
      << 5, 1, 0, 1, 127, 0, 0, 1, 0, 80 >>,
      << 5, 1, 0, 3, 3, 97, 46, 98, 0, 80 >>,
      << 5, 1, 0, 3, 9, 97, 46, 98, 0, 80 >>,
      << 5, 1, 0, 4, 0, 0, 0, 0, 0, 0 >>,
      IPV6_REQUEST,
      << 5, 1, 0, 9, 0, 0, 0, 0, 0, 0 >> }

\* a request handling that takes every request of ten bytes or more for an
\* IPv4 CONNECT
handle_request_any_command(buffer, lookup, connected) ==
    IF Len(buffer) < 10
    THEN [ result |-> "request_too_short", reply |-> << >>,
           dest_dialed |-> FALSE ]
    ELSE IF connected
    THEN [ result |-> "relaying",
           reply |-> << 5, 0, 0, 1 >> \o SubSeq(buffer, 5, 10),
           dest_dialed |-> TRUE ]
    ELSE [ result |-> "connect_failed",
           reply |-> << 5, 1, 0, 1, 0, 0, 0, 0, 0, 0 >>,
           dest_dialed |-> TRUE ]

\* handle_socks5_connection from the request on: how it goes on, what it
\* writes to the client and whether it called TcpStream::connect
handle_request(buffer, lookup, connected) ==
    LET n == Len(buffer)
        refused(result, reply) ==
            [ result |-> result, reply |-> reply, dest_dialed |-> FALSE ]
        connect(ip, port) ==
            IF connected
            THEN [ result |-> "relaying",
                   reply |-> << 5, 0, 0, IF Len(ip) = 4 THEN 1 ELSE 4 >>
                                 \o ip \o port,
                   dest_dialed |-> TRUE ]
            ELSE [ result |-> "connect_failed",
                   reply |-> << 5, 1, 0, 1, 0, 0, 0, 0, 0, 0 >>,
                   dest_dialed |-> TRUE ]
    IN  IF n < 10 THEN refused("request_too_short", << >>)
        ELSE IF buffer[1] # 5 THEN refused("bad_request_version", << >>)
        ELSE IF buffer[2] # 1
        THEN refused("command_not_supported", << 5, 7, 0, 1, 0, 0, 0, 0, 0, 0 >>)
        ELSE IF buffer[4] = 1
        THEN connect(SubSeq(buffer, 5, 8), SubSeq(buffer, 9, 10))
        ELSE IF buffer[4] = 3
        THEN LET domain_len == buffer[5] IN
             IF n < 5 + domain_len + 2 THEN refused("bad_domain_length", << >>)
             ELSE IF lookup = None THEN refused("resolve_failed", << >>)
             ELSE IF lookup[1] = << >> THEN refused("resolve_empty", << >>)
             ELSE connect(lookup[1][1],
                          SubSeq(buffer, 5 + domain_len + 1, 5 + domain_len + 2))
        ELSE IF buffer[4] = 4
        THEN IF n < 22 THEN refused("bad_ipv6_length", << >>)
             ELSE connect(SubSeq(buffer, 5, 20), SubSeq(buffer, 21, 22))
        ELSE refused("address_type_not_supported",
                     << 5, 8, 0, 1, 0, 0, 0, 0, 0, 0 >>)

InitSocks ==
    /\ ret = NoCall
    /\ InitNoCalls
    /\ InitAppVars

\* listener.accept() returns a stream: the handler is spawned
Accept(i) ==
    /\ accepting
    /\ conns[i].pc = "none"
    /\ \A j \in 1..(i - 1) : conns[j].pc # "none"
    /\ conns' = [ conns EXCEPT ![i].pc = "greeting" ]
    /\ ret' = [ NoCall EXCEPT !.op = "accept", !.id = i ]
    /\ UNCHANGED << registryVars, logVars, lifeVars, accepting, appVars >>

\* listener.accept() returns an error: it is logged
AcceptError ==
    /\ accepting
    /\ accepting' = accept_loop_continues("accept_failed")
    /\ ret' = [ NoCall EXCEPT !.op = "accept_error" ]
    /\ UNCHANGED << registryVars, logVars, lifeVars, conns, appVars >>

\* the handler of connection i reads the greeting and selects the method;
\* write_ok: the write of the selection to the client succeeds
ReadGreeting(i, buffer, write_ok) ==
    /\ conns[i].pc = "greeting"
    /\ LET g == handle_greeting(buffer)
           written == g.reply = << >> \/ write_ok
           result == IF written THEN g.result ELSE "write_failed"
       IN  /\ conns' = [ conns EXCEPT ![i] =
                  [ @ EXCEPT !.greeting = buffer,
                             !.sent = IF written THEN g.reply ELSE << >>,
                             !.pc = IF result = "ok" THEN "request" ELSE "closed",
                             !.result = IF result = "ok" THEN "" ELSE result ] ]
           /\ accepting' = IF result = "ok" THEN accepting
                           ELSE accepting /\ accept_loop_continues(result)
    /\ ret' = [ NoCall EXCEPT !.op = "greeting", !.id = i ]
    /\ UNCHANGED << registryVars, logVars, lifeVars, appVars >>

\* the handler of connection i reads the request, resolves and dials the
\* destination and answers the client
ReadRequest(i, buffer, lookup, connected, write_ok) ==
    /\ conns[i].pc = "request"
    /\ LET r == handle_request(buffer, lookup, connected)
           written == r.reply = << >> \/ write_ok
           result == IF written THEN r.result ELSE "write_failed"
       IN  /\ conns' = [ conns EXCEPT ![i] =
                  [ @ EXCEPT !.request = buffer,
                             !.request_read = TRUE,
                             !.sent = IF written THEN @ \o r.reply ELSE @,
                             !.dest_dialed = r.dest_dialed,
                             !.pc = IF result = "relaying" THEN "relaying"
                                    ELSE "closed",
                             !.result = IF result = "relaying" THEN ""
                                        ELSE result ] ]
           /\ accepting' = IF result = "relaying" THEN accepting
                           ELSE accepting /\ accept_loop_continues(result)
    /\ ret' = [ NoCall EXCEPT !.op = "request", !.id = i ]
    /\ UNCHANGED << registryVars, logVars, lifeVars, appVars >>

\* proxy_data returns and with it the handler
RelayEnd(i, ok) ==
    /\ conns[i].pc = "relaying"
    /\ LET result == IF ok THEN "ok" ELSE "relay_failed"
       IN  /\ conns' = [ conns EXCEPT ![i].pc = "closed", ![i].result = result ]
           /\ accepting' = (accepting /\ accept_loop_continues(result))
    /\ ret' = [ NoCall EXCEPT !.op = "relay_end", !.id = i ]
    /\ UNCHANGED << registryVars, logVars, lifeVars, appVars >>

NextSocks ==
    \/ \E i \in 1..MaxConns : Accept(i)
    \/ AcceptError
    \/ \E i \in 1..MaxConns, buffer \in Greetings, write_ok \in BOOLEAN :
           ReadGreeting(i, buffer, write_ok)
    \/ \E i \in 1..MaxConns, buffer \in Requests, lookup \in Lookups,
          connected \in BOOLEAN, write_ok \in BOOLEAN :
           ReadRequest(i, buffer, lookup, connected, write_ok)
    \/ \E i \in 1..MaxConns, ok \in BOOLEAN : RelayEnd(i, ok)

SpecSocks == InitSocks /\ [][NextSocks]_vars

(* One client stream, byte by byte.  TCP delivers the client's bytes in     *)
(* order but in segments of any size; stream.read returns the bytes that    *)
(* have arrived, however many messages or parts of a message they are.      *)

\* well-formed greetings: version 5, NMETHODS methods, no-authentication
\* among them
ClientGreetings == { << 5, 1, 0 >>, << 5, 2, 2, 0 >>, << 5, 2, 0, 2 >> }

\* well-formed CONNECT requests: an IPv4 address, a domain name, an IPv6
\* address
ClientRequests ==
    { << 5, 1, 0, 1, 127, 0, 0, 1, 0, 80 >>,
      << 5, 1, 0, 3, 3, 97, 46, 98, 0, 80 >>,
      IPV6_REQUEST }

\* a client connects and writes a greeting and a request
InitSegments ==
    /\ ret = NoCall
    /\ InitNoCalls
    /\ app = [ traffic_interceptor |-> None ]
    /\ relay = NoRelay
    /\ dns = [ r \in 1..NumRequests |-> NoRequest ]
    /\ dial = NoDial
    /\ threads = [ k \in LoopThreads |-> NoThread ]
    /\ \E greeting \in ClientGreetings, request \in ClientRequests :
           wire = [ greeting |-> greeting, request |-> request,
                    in_flight |-> greeting \o request, unread |-> << >> ]

\* the next n bytes of the client arrive at the server's socket
SegmentArrives(n) ==
    /\ n \in 1..Len(wire.in_flight)
    /\ wire' = [ wire EXCEPT
           !.in_flight = SubSeq(@, n + 1, Len(@)),
           !.unread = @ \o SubSeq(wire.in_flight, 1, n) ]
    /\ ret' = [ NoCall EXCEPT !.op = "segment", !.id = n ]
    /\ UNCHANGED << registryVars, logVars, lifeVars, socksVars,
                    app, relay, dns, dial, threads >>

\* the handler's first stream.read returns the bytes that have arrived and
\* the handler takes them for the greeting
ReadsGreeting ==
    /\ conns[1].pc = "greeting"
    /\ wire.unread # << >>
    /\ LET g == handle_greeting(wire.unread)
       IN  /\ conns' = [ conns EXCEPT ![1] =
                  [ @ EXCEPT !.greeting = wire.unread,
                             !.sent = g.reply,
                             !.pc = IF g.result = "ok" THEN "request"
                                    ELSE "closed",
                             !.result = IF g.result = "ok" THEN ""
                                        ELSE g.result ] ]
           /\ accepting' = IF g.result = "ok" THEN accepting
                           ELSE accepting /\ accept_loop_continues(g.result)
    /\ wire' = [ wire EXCEPT !.unread = << >> ]
    /\ ret' = [ NoCall EXCEPT !.op = "greeting", !.id = 1 ]
    /\ UNCHANGED << registryVars, logVars, lifeVars,
                    app, relay, dns, dial, threads >>

\* the handler's second stream.read returns the bytes that have arrived since
\* and the handler takes them for the request; the name resolves and
\* TcpStream::connect succeeds or not
ReadsRequest(connected) ==
    /\ conns[1].pc = "request"
    /\ wire.unread # << >>
    /\ LET r == handle_request(wire.unread, Some(<< RESOLVED_IP >>), connected)
       IN  /\ conns' = [ conns EXCEPT ![1] =
                  [ @ EXCEPT !.request = wire.unread,
                             !.request_read = TRUE,
                             !.sent = @ \o r.reply,
                             !.dest_dialed = r.dest_dialed,
                             !.pc = IF r.result = "relaying" THEN "relaying"
                                    ELSE "closed",
                             !.result = IF r.result = "relaying" THEN ""
                                        ELSE r.result ] ]
           /\ accepting' = IF r.result = "relaying" THEN accepting
                           ELSE accepting /\ accept_loop_continues(r.result)
    /\ wire' = [ wire EXCEPT !.unread = << >> ]
    /\ ret' = [ NoCall EXCEPT !.op = "request", !.id = 1 ]
    /\ UNCHANGED << registryVars, logVars, lifeVars,
                    app, relay, dns, dial, threads >>

NextSegments ==
    \/ Accept(1)
    \/ \E n \in 1..(Len(IPV6_REQUEST) + 4) : SegmentArrives(n)
    \/ ReadsGreeting
    \/ \E connected \in BOOLEAN : ReadsRequest(connected)

SpecSegments == InitSegments /\ [][NextSegments]_vars

---------------------------------------------------------------------------
(* The SOCKS5 clients that dial an upstream proxy: Socks5Client             *)
(* (socks5_client.rs), TrafficInterceptor (traffic_interceptor_helpers.rs)   *)
(* and RealTrafficProxy (real_proxy.rs).  The proxy answers the greeting     *)
(* with `choice`, an authentication request with `auth` and the CONNECT      *)
(* request with `reply`, after which it sends `payload`.  A read_exact that  *)
(* finds too few bytes fails.  username and password are Option<String>.     *)

\* Socks5Client::connect_socks5, step 1: the greeting written
connect_socks5_greeting(username) ==
    LET auth_methods == IF username # None THEN << 2, 0 >> ELSE << 0 >>
    IN  << 5, Len(auth_methods) >> \o auth_methods

\* TrafficInterceptor::socks5_handshake: the greeting written
socks5_handshake_greeting(username) ==
    IF username # None THEN << 5, 1, 2, 0 >> ELSE << 5, 1, 0 >>

\* RealTrafficProxy::socks5_handshake_sync: the greeting written
socks5_handshake_sync_greeting(username) ==
    IF username # None THEN << 5, 1, 2, 0 >> ELSE << 5, 1, 0 >>

\* authenticate_socks5: the sub-negotiation request written
auth_request(username, password) ==
    << 1, Len(username) % 256 >> \o as_bytes(username)
        \o << Len(password) % 256 >> \o as_bytes(password)

\* the CONNECT request written for target [ip, port]
connect_request(target) ==
    << 5, 1, 0, IF Len(target.ip) = 4 THEN 1 ELSE 4 >> \o target.ip
        \o << target.port \div 256, target.port % 256 >>

\* stream.read_exact of n bytes: the bytes read and those left in the stream
read_exact(stream, n) ==
    IF Len(stream) >= n
    THEN Some([ bytes |-> SubSeq(stream, 1, n),
                rest |-> SubSeq(stream, n + 1, Len(stream)) ])
    ELSE None

\* an authentication check that reads only the sub-negotiation version
authenticated_any_status(status) == status[1] = 1

\* authenticate_socks5: the check of the sub-negotiation status
authenticated(status) == ~(status[1] # 1 \/ status[2] # 0)

\* a reply check that reads only the version byte
reply_version_only(header) == header[1] = 5

\* the check of the 4-byte reply header
reply_accepted(header) == ~(header[1] # 5 \/ header[2] # 0)

\* the dial from the greeting on: what is written, how it ends and what is
\* left unread in the stream returned
socks5_dial(greeting, username, password, target, server) ==
    LET ended(result, sub_negotiation, request, unread) ==
            [ greeting |-> greeting, auth_request |-> sub_negotiation,
              connect_request |-> request, result |-> result,
              unread |-> unread ]
        connect(sub_negotiation, leftover) ==
            LET request == connect_request(target)
                failed(result) == ended(result, sub_negotiation, request, << >>)
                header == read_exact(leftover \o server.reply \o server.payload, 4)
            IN  IF header = None THEN failed("read_failed")
                ELSE IF ~reply_accepted(header[1].bytes)
                THEN failed("connection_failed")
                ELSE LET atyp == header[1].bytes[4]
                         len == IF atyp = 3 THEN read_exact(header[1].rest, 1)
                                ELSE Some([ bytes |-> << IF atyp = 1 THEN 4 ELSE 16 >>,
                                            rest |-> header[1].rest ])
                     IN  IF atyp \notin { 1, 3, 4 }
                         THEN failed("invalid_address_type")
                         ELSE IF len = None THEN failed("read_failed")
                         ELSE LET addr == read_exact(len[1].rest, len[1].bytes[1])
                              IN  IF addr = None THEN failed("read_failed")
                                  ELSE LET port == read_exact(addr[1].rest, 2)
                                       IN  IF port = None
                                           THEN failed("read_failed")
                                           ELSE ended("ok", sub_negotiation,
                                                      request, port[1].rest)
        choice == read_exact(server.choice, 2)
    IN  IF choice = None THEN ended("read_failed", << >>, << >>, << >>)
        ELSE IF choice[1].bytes[1] # 5
        THEN ended("invalid_version", << >>, << >>, << >>)
        ELSE IF choice[1].bytes[2] = 2 /\ username # None
        THEN IF password = None THEN ended("panicked", << >>, << >>, << >>)
             ELSE LET request == auth_request(username[1], password[1])
                      status == read_exact(choice[1].rest \o server.auth, 2)
                  IN  IF status = None
                      THEN ended("read_failed", request, << >>, << >>)
                      ELSE IF ~authenticated(status[1].bytes)
                      THEN ended("authentication_failed", request, << >>, << >>)
                      ELSE connect(request, status[1].rest)
        ELSE IF choice[1].bytes[2] # 0
        THEN ended("authentication_failed", << >>, << >>, << >>)
        ELSE connect(<< >>, choice[1].rest)

\* a client about to dial a proxy that answers in some way
InitDial ==
    /\ ret = NoCall
    /\ InitNoCalls
    /\ app = [ traffic_interceptor |-> None ]
    /\ relay = NoRelay
    /\ dns = [ r \in 1..NumRequests |-> NoRequest ]
    /\ InitFlowVars
    /\ dial \in
         { [ NoDial EXCEPT !.pc = "dialing", !.client = client,
                           !.username = credentials[1],
                           !.password = credentials[2],
                           !.target = target, !.choice = choice, !.auth = auth,
                           !.reply = reply, !.payload = payload ] :
             client \in { "Socks5Client", "TrafficInterceptor", "RealTrafficProxy" },
             credentials \in { << None, None >>,
                               << Some(<< "u" >>), Some(<< "p" >>) >>,
                               << Some(<< "u" >>), None >> },
             target \in { [ ip |-> << 8, 8, 8, 8 >>, port |-> 53 ],
                          [ ip |-> << 0, 0, 0, 0, 0, 0, 0, 0,
                                      0, 0, 0, 0, 0, 0, 0, 1 >>, port |-> 443 ] },
             choice \in { << 5, 0 >>, << 5, 2 >>, << 5, 255 >>, << 5, 1 >>,
                          << 4, 0 >>, << 5 >> },
             auth \in { << 1, 0 >>, << 1, 1 >>, << 5, 0 >>, << >> },
             reply \in { << 5, 0, 0, 1, 10, 0, 0, 1, 4, 56 >>,
                         << 5, 0, 0, 3, 3, 97, 46, 98, 4, 56 >>,
                         << 5, 0, 0, 4, 0, 0, 0, 0, 0, 0, 0, 0,
                            0, 0, 0, 0, 0, 0, 0, 1, 4, 56 >>,
                         << 5, 1, 0, 1, 0, 0, 0, 0, 0, 0 >>,
                         << 4, 0, 0, 1, 10, 0, 0, 1, 4, 56 >>,
                         << 5, 0, 0, 9, 10, 0, 0, 1, 4, 56 >>,
                         << 5, 0, 0 >> },
             payload \in { << >>, << 22, 3 >> } }

\* the client dials: greeting, authentication, CONNECT
Dial ==
    /\ dial.pc = "dialing"
    /\ LET greeting ==
               CASE dial.client = "Socks5Client" ->
                        connect_socks5_greeting(dial.username)
                 [] dial.client = "TrafficInterceptor" ->
                        socks5_handshake_greeting(dial.username)
                 [] dial.client = "RealTrafficProxy" ->
                        socks5_handshake_sync_greeting(dial.username)
           d == socks5_dial(greeting, dial.username, dial.password, dial.target,
                            [ choice |-> dial.choice, auth |-> dial.auth,
                              reply |-> dial.reply, payload |-> dial.payload ])
       IN  dial' = [ dial EXCEPT !.pc = "done", !.greeting = d.greeting,
                                 !.auth_request = d.auth_request,
                                 !.connect_request = d.connect_request,
                                 !.result = d.result, !.unread = d.unread ]
    /\ UNCHANGED << registryVars, ret, logVars, lifeVars, socksVars, app, relay,
                    dns,
                    threads, wire >>

SpecDial == InitDial /\ [][Dial]_vars

---------------------------------------------------------------------------
(* The relays: proxy_data (src/src/socks5.rs), forward_data_bidirectional  *)
(* (real_proxy.rs), and what handle_connect (src/src/proxy.rs) does in      *)
(* their place.  Data is counted in chunks: pending[p] chunks of peer p are  *)
(* waiting to be read, forwarded[p] were written to the other peer,          *)
(* buffered[p] were read by the copy from p and wait in its buffer for the   *)
(* other peer to take them, and                                              *)
(* closed[p] says that p has closed, so that a read finds end-of-stream once *)
(* pending[p] is 0.  A relay is at                                           *)
(*   "none"         not started,                                             *)
(*   "select"       proxy_data: in tokio::select! over the two copies,       *)
(*   "read_client", "read_upstream"  forward_data_bidirectional: blocked in  *)
(*                  the read of that stream,                                 *)
(*   "returned".                                                             *)

other_peer(p) == IF p = "client" THEN "upstream" ELSE "client"

InitRelay ==
    /\ ret = NoCall
    /\ InitNoCalls
    /\ app = [ traffic_interceptor |-> None ]
    /\ relay = NoRelay
    /\ dns = [ r \in 1..NumRequests |-> NoRequest ]
    /\ InitFlowVars
    /\ dial = NoDial

\* handle_socks5_connection calls proxy_data, proxy_tcp_connection calls
\* forward_data_bidirectional
StartRelay(kind) ==
    /\ relay.kind = ""
    /\ relay' = [ relay EXCEPT
                    !.kind = kind,
                    !.pc = IF kind = "proxy_data" THEN "select"
                           ELSE "read_client" ]
    /\ UNCHANGED << registryVars, ret, logVars, lifeVars, socksVars, app, dns,
                    dial,
                    threads, wire >>

\* handle_connect: the answer to an HTTP CONNECT; the target stream is dropped
\* when the function returns
HandleConnect(has_authority, connected) ==
    /\ relay.kind = ""
    /\ LET status == IF ~has_authority THEN "400"
                     ELSE IF connected THEN "200" ELSE "502"
       IN  /\ ret' = [ NoCall EXCEPT !.op = "handle_connect", !.status = status ]
           /\ relay' = [ relay EXCEPT
                           !.kind = "handle_connect",
                           !.closed["upstream"] = TRUE ]
    /\ UNCHANGED << registryVars, logVars, lifeVars, socksVars, app, dns, dial,
                    threads, wire >>

\* peer p sends a chunk
PeerSends(p) ==
    /\ relay.kind # ""
    /\ relay.kind = "handle_connect" => ret.status = "200"
    /\ ~relay.closed[p]
    /\ relay.sent[p] < MaxChunks
    /\ relay' = [ relay EXCEPT !.sent[p] = @ + 1, !.pending[p] = @ + 1 ]
    /\ UNCHANGED << registryVars, ret, logVars, lifeVars, socksVars, app, dns,
                    dial,
                    threads, wire >>

\* peer p closes its connection
PeerCloses(p) ==
    /\ relay.kind # ""
    /\ ~relay.closed[p]
    /\ relay' = [ relay EXCEPT !.closed[p] = TRUE ]
    /\ UNCHANGED << registryVars, ret, logVars, lifeVars, socksVars, app, dns,
                    dial,
                    threads, wire >>

\* proxy_data: the copy from p moves a chunk, read and written in one poll;
\* a failed write ends the copy and with it the select
ProxyDataCopies(p, write_ok) ==
    /\ relay.pc = "select"
    /\ relay.pending[p] > 0
    /\ relay.buffered[p] = 0
    /\ relay' = [ relay EXCEPT
                    !.pending[p] = @ - 1,
                    !.forwarded[p] = IF write_ok THEN @ + 1 ELSE @,
                    !.pc = IF write_ok THEN "select" ELSE "returned" ]
    /\ UNCHANGED << registryVars, ret, logVars, lifeVars, socksVars, app, dns,
                    dial,
                    threads, wire >>

\* proxy_data: the copy from p reads a chunk into its buffer while the other
\* peer is not ready to take it: the write is pending and the copy yields
ProxyDataReads(p) ==
    /\ relay.pc = "select"
    /\ relay.pending[p] > 0
    /\ relay.buffered[p] = 0
    /\ relay' = [ relay EXCEPT !.pending[p] = @ - 1, !.buffered[p] = @ + 1 ]
    /\ UNCHANGED << registryVars, ret, logVars, lifeVars, socksVars, app, dns,
                    dial,
                    threads, wire >>

\* proxy_data: the other peer became writable and the copy from p, polled
\* again, writes what it holds
ProxyDataFlushes(p, write_ok) ==
    /\ relay.pc = "select"
    /\ relay.buffered[p] > 0
    /\ relay' = [ relay EXCEPT
                    !.buffered[p] = @ - 1,
                    !.forwarded[p] = IF write_ok THEN @ + 1 ELSE @,
                    !.pc = IF write_ok THEN "select" ELSE "returned" ]
    /\ UNCHANGED << registryVars, ret, logVars, lifeVars, socksVars, app, dns,
                    dial,
                    threads, wire >>

\* proxy_data: the copy from p, its buffer written out, finds end-of-stream;
\* the select completes and drops the other copy with what it holds
ProxyDataReturns(p) ==
    /\ relay.pc = "select"
    /\ relay.pending[p] = 0
    /\ relay.buffered[p] = 0
    /\ relay.closed[p]
    /\ relay' = [ relay EXCEPT !.pc = "returned" ]
    /\ UNCHANGED << registryVars, ret, logVars, lifeVars, socksVars, app, dns,
                    dial,
                    threads, wire >>

\* forward_data_bidirectional: the blocking read of p's stream returns, with
\* a chunk that is written to the other peer, or with end-of-stream
ForwardReads(p, write_ok) ==
    /\ relay.pc = "read_" \o p
    /\ relay.pending[p] > 0 \/ relay.closed[p]
    /\ relay' =
         IF relay.pending[p] > 0
         THEN [ relay EXCEPT
                  !.pending[p] = @ - 1,
                  !.forwarded[p] = IF write_ok THEN @ + 1 ELSE @,
                  !.pc = IF write_ok THEN "read_" \o other_peer(p) ELSE "returned" ]
         ELSE [ relay EXCEPT !.pc = "returned" ]
    /\ UNCHANGED << registryVars, ret, logVars, lifeVars, socksVars, app, dns,
                    dial,
                    threads, wire >>

NextRelay ==
    \/ \E kind \in { "proxy_data", "forward_data_bidirectional" } :
           StartRelay(kind)
    \/ \E has_authority \in BOOLEAN, connected \in BOOLEAN :
           HandleConnect(has_authority, connected)
    \/ \E p \in Peers : PeerSends(p)
    \/ \E p \in Peers : PeerCloses(p)
    \/ \E p \in Peers, write_ok \in BOOLEAN : ProxyDataCopies(p, write_ok)
    \/ \E p \in Peers : ProxyDataReads(p)
    \/ \E p \in Peers, write_ok \in BOOLEAN : ProxyDataFlushes(p, write_ok)
    \/ \E p \in Peers : ProxyDataReturns(p)
    \/ \E p \in Peers, write_ok \in BOOLEAN : ForwardReads(p, write_ok)

SpecRelay == InitRelay /\ [][NextRelay]_vars

\* the relay's task is scheduled whenever it can take a step, and a write
\* that is pending completes or fails; the peers send and close when they
\* please
SpecRelayFair ==
    /\ SpecRelay
    /\ \A p \in Peers :
           /\ WF_vars(ProxyDataCopies(p, TRUE) \/ ProxyDataCopies(p, FALSE)
                        \/ ProxyDataReads(p))
           /\ WF_vars(ProxyDataFlushes(p, TRUE) \/ ProxyDataFlushes(p, FALSE))
           /\ WF_vars(ProxyDataReturns(p))
           /\ WF_vars(ForwardReads(p, TRUE) \/ ForwardReads(p, FALSE))

---------------------------------------------------------------------------
(* The registry of the GUI and the registry of the interceptor.  The       *)
(* control plane acts on MacosListenerApp.proxy_manager, the variable        *)
(* proxy_manager; app.traffic_interceptor is None or holds the ProxyManager  *)
(* inside the Arc<Mutex<..>> the TrafficInterceptor was built with.          *)

\* "Start Traffic Interception": a new TrafficInterceptor over a clone of
\* the registry, started
StartInterception ==
    /\ app.traffic_interceptor = None
    /\ app' = [ app EXCEPT !.traffic_interceptor = Some(proxy_manager) ]
    /\ is_running' = start(FALSE).is_running
    /\ ret' = [ NoCall EXCEPT !.op = "start_interception" ]
    /\ UNCHANGED << registryVars, logVars, start_pc, supervisor, loops, stopped,
                    socksVars, relay, dns, dial,
                    threads, wire >>

\* "Stop Traffic Interception": stop(), and the interceptor is dropped
StopInterception ==
    /\ app' = [ app EXCEPT !.traffic_interceptor = None ]
    /\ is_running' = FALSE
    /\ ret' = [ NoCall EXCEPT !.op = "stop_interception" ]
    /\ UNCHANGED << registryVars, logVars, start_pc, supervisor, loops, stopped,
                    socksVars, relay, dns, dial,
                    threads, wire >>

\* the DNS loop of the running interceptor resolves a name in the registry
\* it was given
LoopResolves(domain) ==
    /\ app.traffic_interceptor # None
    /\ is_running
    /\ ret' = [ NoCall EXCEPT
                  !.op = "loop_resolve", !.name = domain,
                  !.proxy = TI_should_proxy_domain(app.traffic_interceptor[1],
                                                   domain) ]
    /\ UNCHANGED << registryVars, logVars, lifeVars, socksVars, appVars >>

NextShare ==
    \/ AddProxy
    \/ \E proxy_id \in 1..MaxProxyId : AddRule(P_STAR, proxy_id)
    \/ \E id \in 1..MaxProxyId : RemoveProxy(id)
    \/ \E id \in 1..MaxRuleId : RemoveRule(id)
    \/ \E id \in 1..MaxProxyId : ToggleProxy(id)
    \/ \E id \in 1..MaxRuleId : ToggleRule(id)
    \/ ToggleGlobal
    \/ StartInterception
    \/ StopInterception
    \/ LoopResolves(H_A_X_COM)

SpecShare == Init /\ [][NextShare]_vars

---------------------------------------------------------------------------
(* DnsResolver (src/src/dns.rs).  A DnsResult is kept as [host, status].    *)
(* A resolve_hosts call is at "none", "joining" (in join_all, with the       *)
(* status of each resolve_host future or "pending") or "returned".           *)

\* the hosts asked for
HostNames == { << "a" >>, << "b" >> }

\* the ways resolve_host ends: lookup Ok, lookup Err, timeout elapsed
Statuses == { "success", "error", "timeout" }

\* the loop of resolve_hosts over resolved_results, from entry i on
RECURSIVE tally(_, _, _)
tally(resolved_results, i, response) ==
    IF i > Len(resolved_results) THEN response
    ELSE tally(resolved_results, i + 1,
               [ results |-> Append(response.results, resolved_results[i]),
                 total_resolved |->
                     IF resolved_results[i].status = "success"
                     THEN response.total_resolved + 1
                     ELSE response.total_resolved,
                 total_errors |->
                     IF resolved_results[i].status = "success"
                     THEN response.total_errors
                     ELSE response.total_errors + 1 ])

\* a resolve_hosts that leaves the hosts that timed out out of its response
resolve_hosts_without_timeouts(resolved_results) ==
    LET answered(result) == result.status # "timeout"
    IN  tally(SelectSeq(resolved_results, answered), 1,
              [ results |-> << >>, total_resolved |-> 0, total_errors |-> 0 ])

\* DnsResolver::resolve_hosts once join_all has returned resolved_results
resolve_hosts(resolved_results) ==
    tally(resolved_results, 1,
          [ results |-> << >>, total_resolved |-> 0, total_errors |-> 0 ])

InitDns ==
    /\ ret = NoCall
    /\ InitNoCalls
    /\ InitAppVars

\* resolve_hosts(hosts) is called: one resolve_host future per host
ResolveHosts(r, hosts) ==
    /\ dns[r].pc = "none"
    /\ dns' = [ dns EXCEPT ![r] =
                  [ @ EXCEPT !.pc = "joining", !.hosts = hosts,
                             !.status = [ i \in 1..Len(hosts) |-> "pending" ] ] ]
    /\ UNCHANGED << registryVars, ret, logVars, lifeVars, socksVars, app, relay,
                    dial,
                    threads, wire >>

\* the resolve_host future of the i-th host of call r completes
ResolveHost(r, i, status) ==
    /\ dns[r].pc = "joining"
    /\ i \in 1..Len(dns[r].hosts)
    /\ dns[r].status[i] = "pending"
    /\ dns' = [ dns EXCEPT ![r].status[i] = status ]
    /\ UNCHANGED << registryVars, ret, logVars, lifeVars, socksVars, app, relay,
                    dial,
                    threads, wire >>

\* join_all returns the results in the order of the futures, and
\* resolve_hosts returns its response
ResolveHostsReturns(r) ==
    /\ dns[r].pc = "joining"
    /\ \A i \in 1..Len(dns[r].hosts) : dns[r].status[i] # "pending"
    /\ LET resolved_results ==
               [ i \in 1..Len(dns[r].hosts) |->
                   [ host |-> dns[r].hosts[i], status |-> dns[r].status[i] ] ]
           response == resolve_hosts(resolved_results)
       IN  dns' = [ dns EXCEPT ![r] =
                      [ @ EXCEPT !.pc = "returned",
                                 !.results = response.results,
                                 !.total_resolved = response.total_resolved,
                                 !.total_errors = response.total_errors ] ]
    /\ UNCHANGED << registryVars, ret, logVars, lifeVars, socksVars, app, relay,
                    dial,
                    threads, wire >>

NextDns ==
    \/ \E r \in 1..NumRequests, n \in 0..MaxHosts :
           \E hosts \in [ 1..n -> HostNames ] : ResolveHosts(r, hosts)
    \/ \E r \in 1..NumRequests, i \in 1..MaxHosts, status \in Statuses :
           ResolveHost(r, i, status)
    \/ \E r \in 1..NumRequests : ResolveHostsReturns(r)

SpecDns == InitDns /\ [][NextDns]_vars

---------------------------------------------------------------------------
(* The request decoding of handle_socks5_connection on CONNECT requests    *)
(* that name their destination by a domain.                                 *)

\* the longest domain the one length byte (buffer[4]) can announce
MAX_DOMAIN_LEN == 255

\* the CONNECT request for a domain of domain_len bytes and port 80:
\* 7 + domain_len bytes
domain_request(domain_len) ==
    << 5, 1, 0, 3, domain_len >> \o [ i \in 1..domain_len |-> 97 ] \o << 0, 80 >>

InitRequest ==
    /\ ret \in { [ NoCall EXCEPT !.op = "domain_request",
                                 !.packet = domain_request(domain_len) ] :
                   domain_len \in 1..MAX_DOMAIN_LEN }
    /\ InitNoCalls
    /\ InitAppVars

\* the handler reads the request in one read and goes on from there
DecodeRequest(lookup, connected) ==
    /\ ret.op = "domain_request"
    /\ LET r == handle_request(ret.packet, lookup, connected)
       IN  ret' = [ ret EXCEPT !.op = "handle_request", !.status = r.result,
                               !.reply = r.reply ]
    /\ UNCHANGED << registryVars, logVars, lifeVars, socksVars, appVars >>

NextRequest ==
    \E lookup \in Lookups, connected \in BOOLEAN : DecodeRequest(lookup, connected)

SpecRequest == InitRequest /\ [][NextRequest]_vars

---------------------------------------------------------------------------
(* Hostname derivation on its own, on addresses in and around             *)
(* 100.64.0.0/10                                                            *)

\* destinations below, at both ends of, inside and above the range
CgnatAddrs ==
    { << a, b, c, d >> : a \in { 99, 100, 101 }, b \in { 63, 64, 65, 127, 128 },
                         c \in { 0, 7 }, d \in { 0, 255 } }

InitHostname ==
    /\ ret \in { [ NoCall EXCEPT !.op = "destination", !.addr = ip ] :
                   ip \in CgnatAddrs }
    /\ InitNoCalls
    /\ InitAppVars

\* reverse_dns_lookup(ip)
ReverseDnsLookup ==
    /\ ret.op = "destination"
    /\ ret' = [ ret EXCEPT !.op = "reverse_dns_lookup",
                           !.domain = reverse_dns_lookup(ret.addr) ]
    /\ UNCHANGED << registryVars, logVars, lifeVars, socksVars, appVars >>

\* the hostname should_proxy_connection matches the rules against
DeriveHostname ==
    /\ ret.op = "destination"
    /\ ret' = [ ret EXCEPT !.op = "derived_hostname",
                           !.name = derived_hostname(ret.addr) ]
    /\ UNCHANGED << registryVars, logVars, lifeVars, socksVars, appVars >>

NextHostname ==
    \/ ReverseDnsLookup
    \/ DeriveHostname

SpecHostname == InitHostname /\ [][NextHostname]_vars

---------------------------------------------------------------------------
(* The DNS, TCP and UDP loops of one start(), lock by lock.  A thread      *)
(* holds the locks in `holds`; taking a lock and leaving its critical       *)
(* section are steps of their own, and so is every call that waits for the  *)
(* network, for a child process or for time to pass.  A thread is at        *)
(*   "poll"      about to lock is_running,   "recv"     DNS: in recv_from,   *)
(*   "snapshot"  TCP, UDP: reading netstat,  "decide"   about to lock the    *)
(*   registry,   "route"    in route_*_through_socks5,                       *)
(*   "forward"   DNS: in forward_to_system_dns,  "send"  DNS: in send_to,    *)
(*   "draw"      about to lock the counter,  "record"   about to lock the    *)
(*   log,        "sleep"    TCP, UDP: in thread::sleep,                      *)
(*   "recv_error"  DNS: recv_from failed,                                    *)
(*   "x_locked"  inside the critical section entered from "x",               *)
(*   "exited", "recv_failed", "item_failed"  returned.                       *)

\* the four mutexes of a TrafficInterceptor
Locks == { "is_running", "proxy_manager", "connection_counter",
           "intercepted_connections" }

\* where a thread waits for the network, for netstat or for time to pass
Blocking == { "recv", "snapshot", "route", "forward", "send", "sleep" }

\* is the mutex free
free(lock) == \A k \in LoopThreads : lock \notin threads[k].holds

\* a guard that is kept beyond its critical section
guard_kept(holds, lock) == holds

\* the MutexGuard goes out of scope or is passed to drop()
drop(holds, lock) == holds \ { lock }

\* a draw that hands out the next id and leaves the counter as it was
draw_without_increment(counter) ==
    [ counter |-> counter, connection_id |-> counter + 1 ]

\* *counter += 1; let connection_id = *counter;
draw(counter) == [ counter |-> counter + 1, connection_id |-> counter + 1 ]

\* what a step of a loop thread leaves alone, besides the log, the counter
\* and the flag
threadFrame == << registryVars, ret, start_pc, supervisor, loops, stopped,
                  socksVars, app, relay, dns, dial, wire >>

\* the fields of a thread between two flows
idle(thread) ==
    [ thread EXCEPT !.connection_id = 0, !.domain = None, !.proxy = None,
                    !.status = "", !.tunnelled = FALSE ]

\* the three loops are running and the DNS socket is bound
InitThreads ==
    /\ proxy_manager \in { default_manager, ROUTE_ALL }
    /\ ret = NoCall
    /\ returned_proxy_ids = {}
    /\ returned_rule_ids = {}
    /\ removed_proxy_ids = {}
    /\ intercepted_connections = << >>
    /\ connection_counter = 0
    /\ appended = << >>
    /\ is_running = TRUE
    /\ start_pc = [ c \in Callers |-> "idle" ]
    /\ supervisor = [ g \in Generations |-> "none" ]
    /\ loops = [ g \in Generations |-> [ k \in LoopThreads |-> "none" ] ]
    /\ stopped = FALSE
    /\ InitSocksVars
    /\ app = [ traffic_interceptor |-> None ]
    /\ relay = NoRelay
    /\ dns = [ r \in 1..NumRequests |-> NoRequest ]
    /\ dial = NoDial
    /\ threads = [ k \in LoopThreads |-> [ NoThread EXCEPT !.pc = "poll" ] ]
    /\ wire = NoWire

\* thread k takes a mutex: lock().unwrap() returns once the mutex is free
Lock(k, lock, from) ==
    /\ threads[k].pc = from
    /\ free(lock)
    /\ threads' = [ threads EXCEPT ![k].pc = from \o "_locked",
                                   ![k].holds = @ \cup { lock } ]
    /\ UNCHANGED << threadFrame, logVars, is_running >>

\* while *is_running.lock().unwrap(): the flag is read and the guard, a
\* temporary of the condition, is dropped
TestsFlag(k) ==
    /\ threads[k].pc = "poll_locked"
    /\ threads' = [ threads EXCEPT
                      ![k].holds = drop(@, "is_running"),
                      ![k].pc = IF ~is_running THEN "exited"
                                ELSE IF k = "dns" THEN "recv" ELSE "snapshot" ]
    /\ UNCHANGED << threadFrame, logVars, is_running >>

\* TrafficInterceptor::stop, under the flag's lock
StopThreads ==
    /\ free("is_running")
    /\ is_running' = FALSE
    /\ stopped' = TRUE
    /\ UNCHANGED << registryVars, ret, start_pc, supervisor, loops, socksVars,
                    appVars, logVars >>

\* recv_from returns a datagram, which the DNS loop decodes after the draw,
\* or an error
Receives(packet, ok) ==
    /\ threads["dns"].pc = "recv"
    /\ threads' = [ threads EXCEPT
                      !["dns"].pc = IF ok THEN "draw" ELSE "recv_error",
                      !["dns"].domain =
                          IF ok THEN extract_domain_from_dns_packet(packet)
                          ELSE None ]
    /\ UNCHANGED << threadFrame, logVars, is_running >>

\* if *is_running.lock().unwrap() { eprintln } break
ReportsRecvError ==
    /\ threads["dns"].pc = "recv_error_locked"
    /\ threads' = [ threads EXCEPT !["dns"].holds = drop(@, "is_running"),
                                   !["dns"].pc = "recv_failed" ]
    /\ UNCHANGED << threadFrame, logVars, is_running >>

\* the TCP or UDP loop reads netstat and goes through its entries: there is
\* another entry with a remote address, or there is none and the loop sleeps
Snapshot(k, found) ==
    /\ k # "dns"
    /\ threads[k].pc = "snapshot"
    /\ threads' = [ threads EXCEPT ![k].pc = IF found THEN "decide" ELSE "sleep" ]
    /\ UNCHANGED << threadFrame, logVars, is_running >>

\* thread::sleep(100 ms)
Sleeps(k) ==
    /\ threads[k].pc = "sleep"
    /\ threads' = [ threads EXCEPT ![k].pc = "poll" ]
    /\ UNCHANGED << threadFrame, logVars, is_running >>

\* should_proxy_domain or should_proxy_connection, from the lock on the
\* registry to the return, which drops the guard
Decides(k, addr) ==
    /\ threads[k].pc = "decide_locked"
    /\ LET proxy == IF k = "dns"
                    THEN TI_should_proxy_domain(proxy_manager, threads[k].domain[1])
                    ELSE TI_should_proxy_connection(proxy_manager, addr)
       IN  threads' = [ threads EXCEPT
                          ![k].holds = drop(@, "proxy_manager"),
                          ![k].proxy = proxy,
                          ![k].pc = IF proxy # None THEN "route"
                                    ELSE IF k = "dns" THEN "forward"
                                    ELSE "snapshot" ]
    /\ UNCHANGED << threadFrame, logVars, is_running >>

\* route_dns_through_socks5, route_tcp_through_socks5 (connect, handshake
\* and CONNECT, any of which may fail) or route_udp_through_socks5 (which
\* prints and returns Ok)
Routes(k, route_ok) ==
    /\ threads[k].pc = "route"
    /\ k = "udp" => route_ok
    /\ threads' = [ threads EXCEPT
                      ![k].tunnelled = (k # "udp" /\ route_ok),
                      ![k].status = IF route_ok THEN "Proxied" ELSE "Failed",
                      ![k].pc = IF k = "dns"
                                THEN IF route_ok THEN "send" ELSE "record"
                                ELSE IF route_ok THEN "draw" ELSE "item_failed" ]
    /\ UNCHANGED << threadFrame, logVars, is_running >>

\* forward_to_system_dns: on an error nothing is sent and nothing recorded
Forwards(ok) ==
    /\ threads["dns"].pc = "forward"
    /\ threads' = [ threads EXCEPT
                      !["dns"] = IF ok THEN [ @ EXCEPT !.status = "Direct",
                                                       !.pc = "send" ]
                                 ELSE [ idle(@) EXCEPT !.pc = "poll" ] ]
    /\ UNCHANGED << threadFrame, logVars, is_running >>

\* dns_socket.send_to(&response, client_addr)?
Sends(ok) ==
    /\ threads["dns"].pc = "send"
    /\ threads' = [ threads EXCEPT
                      !["dns"].pc = IF ok THEN "record" ELSE "item_failed" ]
    /\ UNCHANGED << threadFrame, logVars, is_running >>

\* the critical section on the counter: increment, read, drop(counter)
Draws(k) ==
    /\ threads[k].pc = "draw_locked"
    /\ connection_counter' = draw(connection_counter).counter
    /\ threads' = [ threads EXCEPT
                      ![k] = IF k = "dns" /\ @.domain = None
                             THEN [ idle(@) EXCEPT
                                      !.holds = drop(@, "connection_counter"),
                                      !.pc = "poll" ]
                             ELSE [ @ EXCEPT
                                      !.holds = drop(@, "connection_counter"),
                                      !.connection_id =
                                          draw(connection_counter).connection_id,
                                      !.pc = IF k = "dns" THEN "decide"
                                             ELSE "record" ] ]
    /\ UNCHANGED << threadFrame, intercepted_connections, appended, is_running >>

\* record_intercepted_connection from the lock on the log to its return
Records(k) ==
    /\ threads[k].pc = "record_locked"
    /\ intercepted_connections' =
           record_intercepted_connection(intercepted_connections,
                                         threads[k].connection_id,
                                         threads[k].status)
    /\ appended' = Append(appended, [ id |-> threads[k].connection_id,
                                      status |-> threads[k].status ])
    /\ threads' = [ threads EXCEPT
                      ![k] = [ idle(@) EXCEPT
                                 !.holds = drop(@, "intercepted_connections"),
                                 !.pc = IF k = "dns" THEN "poll" ELSE "snapshot" ] ]
    /\ UNCHANGED << threadFrame, connection_counter, is_running >>

NextThreads ==
    \/ \E k \in LoopThreads : Lock(k, "is_running", "poll")
    \/ \E k \in LoopThreads : TestsFlag(k)
    \/ StopThreads
    \/ \E packet \in DnsPackets, ok \in BOOLEAN : Receives(packet, ok)
    \/ Lock("dns", "is_running", "recv_error")
    \/ ReportsRecvError
    \/ \E k \in LoopThreads, found \in BOOLEAN : Snapshot(k, found)
    \/ \E k \in LoopThreads : Sleeps(k)
    \/ \E k \in LoopThreads : Lock(k, "proxy_manager", "decide")
    \/ \E k \in LoopThreads, addr \in Addrs : Decides(k, addr)
    \/ \E k \in LoopThreads, route_ok \in BOOLEAN : Routes(k, route_ok)
    \/ \E ok \in BOOLEAN : Forwards(ok)
    \/ \E ok \in BOOLEAN : Sends(ok)
    \/ \E k \in LoopThreads :
           /\ connection_counter < MaxItems
           /\ Lock(k, "connection_counter", "draw")
    \/ \E k \in LoopThreads : Draws(k)
    \/ \E k \in LoopThreads : Lock(k, "intercepted_connections", "record")
    \/ \E k \in LoopThreads : Records(k)

SpecThreads == InitThreads /\ [][NextThreads]_vars

---------------------------------------------------------------------------
(* Claims *)

ConnectionOps ==
    { "get_proxy_for_connection", "TI_should_proxy_connection",
      "RP_should_proxy_connection" }

DomainOps == { "TI_should_proxy_domain", "RP_should_proxy_domain" }

RoutingOps == ConnectionOps \cup DomainOps

MatchOps == { "PM_matches_pattern", "TI_matches_pattern", "RP_matches_pattern" }

\* the hostname the decision point of a routing call matches the rules against
HostnameOf(call) ==
    IF call.op \in DomainOps THEN call.name
    ELSE IF call.op = "get_proxy_for_connection" THEN PM_hostname(call.addr)
    ELSE derived_hostname(call.addr)

\* does the rule match the hostname, by the matcher of the decision point op
RuleMatches(op, rule, hostname) ==
    IF op = "get_proxy_for_connection" THEN PM_matches_pattern(rule.pattern, hostname)
    ELSE IF op \in { "TI_should_proxy_domain", "TI_should_proxy_connection" }
         THEN TI_matches_pattern(rule.pattern, hostname)
    ELSE RP_any_match(rule, hostname)

\* index of the first enabled rule that matches, 0 when there is none
FirstMatchingRule(op, m, hostname) ==
    LET hits == { i \in 1..Len(m.rules) :
                    m.rules[i].enabled /\ RuleMatches(op, m.rules[i], hostname) }
    IN  IF hits = {} THEN 0 ELSE CHOOSE i \in hits : \A j \in hits : i <= j

\* C1: whenever global_enabled is false, every routing decision point
\* returns None, whatever proxies and rules the registry holds.
C1_GlobalDisabledRoutesNothing ==
    (ret.op \in RoutingOps /\ ~proxy_manager.global_enabled) => ret.proxy = None

\* a lookup answered None with routing disabled that a rule and an enabled
\* proxy would otherwise have answered
C1_Witness ==
    /\ ret.op = "get_proxy_for_connection"
    /\ ~proxy_manager.global_enabled
    /\ ret.proxy = None
    /\ get_proxy_for_connection_unguarded(proxy_manager, ret.addr) # None

\* the registry of the example: rule1 {10.0.0.*, A} before rule2 {*, B},
\* both rules and both proxies enabled, routing enabled
C2_ExampleRegistry ==
    /\ proxy_manager.global_enabled
    /\ Len(proxy_manager.rules) = 2
    /\ proxy_manager.rules[1].pattern = P_10_0_0_STAR
    /\ proxy_manager.rules[2].pattern = P_STAR
    /\ proxy_manager.rules[1].enabled /\ proxy_manager.rules[2].enabled
    /\ proxy_manager.rules[1].proxy_id # proxy_manager.rules[2].proxy_id
    /\ find_enabled_proxy(proxy_manager, proxy_manager.rules[1].proxy_id) # None
    /\ find_enabled_proxy(proxy_manager, proxy_manager.rules[2].proxy_id) # None

\* C2: with rule1 {10.0.0.*, A} before rule2 {*, B}, every decision point
\* answers A for the hostname 10.0.0.5 and B for the hostname 8.8.8.8.
C2_FirstMatchingRuleWins ==
    (ret.op \in RoutingOps /\ C2_ExampleRegistry) =>
        /\ HostnameOf(ret) = H_10_0_0_5 =>
               ret.proxy = find_enabled_proxy(proxy_manager,
                                               proxy_manager.rules[1].proxy_id)
        /\ HostnameOf(ret) = H_8_8_8_8 =>
               ret.proxy = find_enabled_proxy(proxy_manager,
                                               proxy_manager.rules[2].proxy_id)

\* C3: when the first enabled rule that matches the hostname refers to a
\* proxy that is missing or disabled, every decision point returns None.
C3_NoFallThrough ==
    ( /\ ret.op \in RoutingOps
      /\ proxy_manager.global_enabled
      /\ FirstMatchingRule(ret.op, proxy_manager, HostnameOf(ret)) # 0
      /\ find_enabled_proxy(proxy_manager,
             proxy_manager.rules[FirstMatchingRule(ret.op, proxy_manager,
                                                   HostnameOf(ret))].proxy_id) = None )
    => ret.proxy = None

\* C4 as stated: in every state after remove_proxy(id) succeeded, no rule
\* refers to id.
C4_NoRuleRefersToRemovedProxy ==
    \A i \in 1..Len(proxy_manager.rules) :
        proxy_manager.rules[i].proxy_id \notin removed_proxy_ids

\* C4 amended: remove_proxy(id) on an existing proxy returns true and removes
\* that proxy and every rule whose proxy_id is id, so that right after the
\* call no rule refers to id; on an unknown id it returns false and changes
\* nothing; and no decision point ever returns a proxy whose id was removed.
C4_RemoveProxyCascades ==
    [][ /\ ret'.op = "remove_proxy" =>
            IF position_of(proxy_manager.proxies, ret'.id) # 0
            THEN /\ ret'.ok = TRUE
                 /\ Len(proxy_manager'.proxies) = Len(proxy_manager.proxies) - 1
                 /\ \A i \in 1..Len(proxy_manager'.proxies) :
                        proxy_manager'.proxies[i].id # ret'.id
                 /\ \A i \in 1..Len(proxy_manager'.rules) :
                        proxy_manager'.rules[i].proxy_id # ret'.id
                 /\ \A i \in 1..Len(proxy_manager.rules) :
                        proxy_manager.rules[i].proxy_id # ret'.id =>
                            \E j \in 1..Len(proxy_manager'.rules) :
                                proxy_manager'.rules[j] = proxy_manager.rules[i]
            ELSE /\ ret'.ok = FALSE
                 /\ proxy_manager' = proxy_manager
        /\ (ret'.op \in RoutingOps /\ ret'.proxy # None) =>
               ret'.proxy[1].id \notin removed_proxy_ids'
      ]_vars

\* a lookup made after a proxy was removed, while an enabled rule added
\* later carries the removed id and matches the address
C4_Witness ==
    /\ ret.op = "get_proxy_for_connection"
    /\ proxy_manager.global_enabled
    /\ \E i \in 1..Len(proxy_manager.rules) :
           /\ proxy_manager.rules[i].proxy_id \in removed_proxy_ids
           /\ proxy_manager.rules[i].enabled
           /\ PM_matches_pattern(proxy_manager.rules[i].pattern, HostnameOf(ret))

\* C5: every id add_proxy returns is greater than every proxy id returned
\* before, likewise add_rule; neither counter ever decreases, and each call
\* leaves the other counter alone.
C5_IdsNeverReused ==
    [][ /\ ret'.op = "add_proxy" =>
            /\ \A i \in returned_proxy_ids : ret'.id > i
            /\ proxy_manager'.next_rule_id = proxy_manager.next_rule_id
        /\ ret'.op = "add_rule" =>
            /\ \A i \in returned_rule_ids : ret'.id > i
            /\ proxy_manager'.next_proxy_id = proxy_manager.next_proxy_id
        /\ proxy_manager'.next_proxy_id >= proxy_manager.next_proxy_id
        /\ proxy_manager'.next_rule_id >= proxy_manager.next_rule_id
      ]_vars

\* add_proxy returned an id after an earlier proxy had been removed
C5_Witness ==
    /\ ret.op = "add_proxy"
    /\ removed_proxy_ids # {}
    /\ proxy_manager.rules # << >>
    /\ ret.id \notin removed_proxy_ids

\* C6: a pattern "*.S" matches the names that end in ".S" and does not
\* match the bare name S.
C6_StarDotExcludesBareName ==
    ( /\ ret.op \in MatchOps
      /\ starts_with(ret.pattern, STAR_DOT)
      /\ Len(ret.pattern) > 2 )
    => LET S == SubSeq(ret.pattern, 3, Len(ret.pattern))
       IN  /\ ret.name = S => ret.ok = FALSE
           /\ (Len(ret.name) > Len(S) + 1 /\ ends_with(ret.name, << "." >> \o S))
                  => ret.ok = TRUE

\* the number of "*" in a pattern
RECURSIVE StarCount(_)
StarCount(pattern) ==
    IF pattern = << >> THEN 0
    ELSE (IF Head(pattern) = "*" THEN 1 ELSE 0) + StarCount(Tail(pattern))

\* C7: for a pattern with exactly one "*" that neither starts with "*." nor
\* ends with ".*", every copy of the matcher answers true iff the hostname
\* starts with the text before the "*" and ends with the text after it.
C7_SingleStarIsPrefixAndSuffix ==
    ( /\ ret.op \in MatchOps
      /\ StarCount(ret.pattern) = 1
      /\ ~starts_with(ret.pattern, STAR_DOT)
      /\ ~ends_with(ret.pattern, DOT_STAR) )
    => ret.ok = ( /\ starts_with(ret.name, split(ret.pattern, STAR)[1])
                  /\ ends_with(ret.name, split(ret.pattern, STAR)[2]) )

\* C8: a rule whose pattern is "*.x.com;10.0.0.*", enabled and pointing at an
\* enabled proxy, routes every hostname that one of its sub-patterns matches,
\* at every decision point.
C8_SubPatternsAreAlternatives ==
    ( /\ ret.op \in RoutingOps
      /\ proxy_manager.global_enabled
      /\ Len(proxy_manager.rules) = 1
      /\ proxy_manager.rules[1].enabled
      /\ proxy_manager.rules[1].pattern = P_MULTI
      /\ find_enabled_proxy(proxy_manager, proxy_manager.rules[1].proxy_id) # None
      /\ \E k \in 1..Len(sub_patterns(P_MULTI)) :
             RuleMatches(ret.op, [ pattern |-> sub_patterns(P_MULTI)[k] ],
                         HostnameOf(ret)) )
    => ret.proxy = find_enabled_proxy(proxy_manager, proxy_manager.rules[1].proxy_id)

\* C9: for one registry state and one destination address the three
\* connection decision points (each matching the rules against the hostname
\* it derives from the address) return the same result; for
\* RealTrafficProxy this is stated where its pre-filter lets the hostname
\* through.
C9_DecisionPointsAgree ==
    ret.op \in ConnectionOps =>
        /\ get_proxy_for_connection(proxy_manager, ret.addr)
               = TI_should_proxy_connection(proxy_manager, ret.addr)
        /\ could_match_any_rule(derived_hostname(ret.addr), proxy_manager.rules) =>
               RP_should_proxy_connection(proxy_manager, ret.addr)
                   = TI_should_proxy_connection(proxy_manager, ret.addr)

\* the last n elements of seq (all of it when it is shorter)
LastN(seq, n) ==
    IF Len(seq) <= n THEN seq ELSE SubSeq(seq, Len(seq) - n + 1, Len(seq))

\* C10: the log never holds more than 1000 entries, also in the copy a
\* reader gets; it holds exactly the 1000 most recently pushed entries, in
\* push order, once more than 1000 were pushed.
C10_LogKeepsLastThousand ==
    /\ Len(intercepted_connections) <= LOG_CAPACITY
    /\ ret.op = "get_intercepted_connections" => Len(ret.log) <= LOG_CAPACITY
    /\ Len(appended) > LOG_CAPACITY => Len(intercepted_connections) = LOG_CAPACITY
    /\ intercepted_connections = LastN(appended, LOG_CAPACITY)

\* more than 1000 entries were pushed and a reader took a copy of the log
C10_Witness ==
    /\ Len(appended) > LOG_CAPACITY + 1
    /\ ret.op = "get_intercepted_connections"
    /\ Len(ret.log) = LOG_CAPACITY
    /\ ret.log[1].id = Len(appended) - LOG_CAPACITY + 1

\* the callers whose start() set the flag
Spawners(pc) == { c \in Callers : pc[c] \in { "spawning", "spawned" } }

\* C11: a start() call made while the flag is set returns Ok, leaves the flag
\* set and spawns nothing; and as long as stop() was never called, whatever
\* the interleaving of the start() calls, exactly one of the calls made has
\* set the flag, and at most one interception_loop thread and one DNS, one
\* TCP and one UDP loop have been spawned.
C11_StartIsIdempotent ==
    [][ /\ (ret'.op = "start" /\ is_running) =>
              /\ ret'.ok = FALSE
              /\ start_pc'[ret'.id] = "noop"
              /\ is_running'
              /\ supervisor' = supervisor
              /\ loops' = loops
        /\ ~stopped' =>
              /\ Cardinality(Spawners(start_pc')) <= 1
              /\ (\E c \in Callers : start_pc'[c] # "idle") =>
                     (Cardinality(Spawners(start_pc')) = 1 /\ is_running')
              /\ Cardinality({ g \in Generations : supervisor'[g] # "none" }) <= 1
              /\ \A k \in LoopThreads :
                     Cardinality({ g \in Generations : loops'[g][k] # "none" }) <= 1
      ]_vars

\* two start() calls were made and stop() never: the first spawned the three
\* loops, the second has just returned without spawning
C11_Witness ==
    /\ ~stopped
    /\ ret.op = "start" /\ ~ret.ok
    /\ \A c \in Callers : start_pc[c] \in { "spawned", "noop" }
    /\ \A k \in LoopThreads : loops[1][k] # "none"
    /\ \A k \in LoopThreads : loops[2][k] = "none"

\* C12: once stop() has cleared the flag, every loop still running and the
\* interception_loop thread eventually return, under fair scheduling and
\* without any datagram arriving.
C12_StoppedLoopsExit ==
    /\ \A g \in Generations, k \in LoopThreads :
           (~is_running /\ loops[g][k] \in Active) ~> (loops[g][k] \notin Active)
    /\ \A g \in Generations :
           (~is_running /\ supervisor[g] = "monitor") ~> (supervisor[g] = "exited")

\* C13: no loop returns because the handling of one item failed.
C13_ItemFailureKeepsLoopRunning ==
    \A g \in Generations, k \in LoopThreads : loops[g][k] # "item_failed"

\* the stages at which the handling of a datagram fails
FailedStages == { "undecodable", "route_failed", "forward_failed", "send_failed" }

\* C14: when the handling of a received datagram has failed, the entry
\* pushed last to the log is that datagram's, with status Failed.
C14_FailedDatagramIsRecorded ==
    (ret.op = "dns_datagram" /\ ret.status \in FailedStages) =>
        /\ appended # << >>
        /\ appended[Len(appended)] = [ id |-> ret.id, status |-> "Failed" ]

\* C15: when a received query is routed through a proxy, the bytes written
\* to the upstream resolver are the bytes of the received datagram, and the
\* bytes read back are the bytes sent to the client.
C15_ProxiedQueryIsForwardedVerbatim ==
    (ret.op = "dns_datagram" /\ ret.status = "proxied") =>
        /\ ret.upstream = ret.packet
        /\ ret.reply = ret.response

\* C16: for every domain made of non-empty labels of 1..63 bytes, decoding
\* the packet build_dns_query_packet makes for it gives back that domain.
C16_BuildExtractRoundTrip ==
    ret.op = "build_then_extract" => ret.domain = Some(ret.name)

\* "example.com" went through the encoder and the decoder and came back
C16_Witness ==
    /\ ret.op = "build_then_extract"
    /\ ret.name = EXAMPLE_COM
    /\ Len(ret.packet) = 12 + 13 + 4
    /\ ret.domain = Some(EXAMPLE_COM)

\* is the name that starts at offset (counted from 0) complete: every length
\* byte and every label lies inside the packet, up to a zero length byte
RECURSIVE name_is_complete(_, _)
name_is_complete(packet, offset) ==
    IF offset >= Len(packet) THEN FALSE
    ELSE IF packet[offset + 1] = 0 THEN TRUE
    ELSE IF offset + 1 + packet[offset + 1] > Len(packet) THEN FALSE
    ELSE name_is_complete(packet, offset + 1 + packet[offset + 1])

\* C17: both copies of the decoder return None for a packet shorter than 12
\* bytes and for a packet whose name has a label running past the end or is
\* cut before its zero terminator.
C17_TruncatedNameGivesNone ==
    ( /\ ret.op \in { "extract_domain_from_dns_packet",
                      "RP_extract_domain_from_dns_packet" }
      /\ (Len(ret.packet) < 12 \/ ~name_is_complete(ret.packet, 12)) )
    => ret.domain = None

\* C18: the accept loop of the SOCKS5 server never stops, whatever an accept
\* or a connection handler returns; and a handler that returns changes no
\* other connection, and when the greeting's version byte was not 5 it has
\* written nothing, read no request and dialed no destination.
C18_HandlerErrorsStayLocal ==
    [][ /\ accepting'
        /\ \A i \in 1..MaxConns :
               (conns[i].pc # "closed" /\ conns'[i].pc = "closed") =>
                   /\ \A j \in 1..MaxConns \ { i } : conns'[j] = conns[j]
                   /\ (conns'[i].greeting # << >> /\ conns'[i].greeting[1] # 5) =>
                          /\ conns'[i].sent = << >>
                          /\ ~conns'[i].request_read
                          /\ ~conns'[i].dest_dialed
      ]_vars

\* connection 1 was closed for a greeting of version 4, and the server has
\* just accepted connection 2
C18_Witness ==
    /\ conns[1].pc = "closed"
    /\ conns[1].result = "bad_version"
    /\ ret.op = "accept" /\ ret.id = 2
    /\ conns[2].pc = "greeting"
    /\ accepting

\* a greeting read whole: version, method count and that many methods
greeting_read(c) ==
    /\ c.pc \in { "request", "relaying", "closed" }
    /\ Len(c.greeting) >= 2
    /\ c.greeting[1] = 5

C20_ResolveFailureIsAnswered ==
    \A i \in 1..MaxConns :
        (conns[i].pc = "closed"
           /\ conns[i].result \in { "resolve_failed", "resolve_empty" }) =>
            conns[i].sent = << 5, 0, 5, 1, 0, 1, 0, 0, 0, 0, 0, 0 >>

\* C21: the greeting every client writes is version 5, the number of methods
\* that follow, and the methods [2, 0] when a username is configured and [0]
\* otherwise, and nothing more.
C21_GreetingCountsItsMethods ==
    dial.pc = "done" =>
        dial.greeting = IF dial.username # None THEN << 5, 2, 2, 0 >>
                        ELSE << 5, 1, 0 >>

\* the bytes of a reply stream after the header, the bound address and the port
after_reply(stream) ==
    LET addr_len == CASE stream[4] = 1 -> 4
                      [] stream[4] = 4 -> 16
                      [] stream[4] = 3 -> 1 + stream[5]
    IN  SubSeq(stream, 4 + addr_len + 2 + 1, Len(stream))

\* C22: a dial succeeds only if the reply to the CONNECT request starts with
\* 5, 0, and then the stream returned starts right after the reply's bound
\* address and port, at the payload.
C22_DialConsumesTheReply ==
    (dial.pc = "done" /\ dial.result = "ok") =>
        /\ Len(dial.reply) >= 4
        /\ dial.reply[1] = 5 /\ dial.reply[2] = 0
        /\ dial.unread = after_reply(dial.reply \o dial.payload)
        /\ dial.unread = dial.payload

\* a dial succeeded on a reply carrying a domain as bound address, and the
\* payload is what is left to read
C22_Witness ==
    /\ dial.pc = "done" /\ dial.result = "ok"
    /\ dial.reply[4] = 3
    /\ dial.payload = << 22, 3 >>
    /\ dial.unread = << 22, 3 >>

\* C29: a CONNECT request is written only after a choice of version 5 that
\* selects method 0, or method 2 with a username configured and the
\* sub-negotiation answered [1, 0].
C29_ConnectOnlyAfterAcceptedMethod ==
    (dial.pc = "done" /\ dial.connect_request # << >>) =>
        /\ dial.choice[1] = 5
        /\ \/ dial.choice[2] = 0
           \/ /\ dial.choice[2] = 2
              /\ dial.username # None
              /\ dial.auth_request # << >>
              /\ dial.auth = << 1, 0 >>

\* a client with credentials was told method 2, authenticated and wrote its
\* CONNECT request
C29_Witness ==
    /\ dial.pc = "done"
    /\ dial.choice = << 5, 2 >>
    /\ dial.auth_request = << 1, 1, 117, 1, 112 >>
    /\ dial.connect_request = << 5, 1, 0, 1, 8, 8, 8, 8, 0, 53 >>

\* C23: once a side of a running relay has reached end-of-stream, the relay
\* returns, whatever the other side does.
C23_RelayReturnsOnEndOfStream ==
    \A p \in Peers :
        (relay.pc \notin { "none", "returned" }
           /\ relay.closed[p] /\ relay.pending[p] = 0)
        ~> (relay.pc = "returned")

\* C24: a chunk waiting to be read from either peer of a running relay is
\* eventually read by the relay, unless the relay returns first.
C24_RelayServesBothDirections ==
    \A p \in Peers :
        (relay.pc \notin { "none", "returned" } /\ relay.pending[p] > 0)
        ~> (relay.pending[p] = 0 \/ relay.pc = "returned")

\* C25: after handle_connect answered 200 a relay runs between the client
\* and the target, and after 400 or 502 none does.
C25_ConnectHandsOverToRelay ==
    relay.kind = "handle_connect" =>
        IF ret.status = "200"
        THEN relay.pc # "none" /\ ~relay.closed["upstream"]
        ELSE relay.pc = "none"

\* C26: what an interception loop resolves a name to is what the registry of
\* the control plane resolves it to at that moment.
C26_LoopsResolveInTheSharedRegistry ==
    ret.op = "loop_resolve" =>
        ret.proxy = TI_should_proxy_domain(proxy_manager, ret.name)

\* C27: the response of a resolve_hosts call holds one result per host
\* asked for, in the order asked, each with the status its own resolve_host
\* ended with; total_resolved counts the successes, and total_resolved and
\* total_errors add up to the number of hosts, whatever another call in
\* flight does.
C27_OneResultPerHost ==
    \A r \in 1..NumRequests :
        dns[r].pc = "returned" =>
            /\ Len(dns[r].results) = Len(dns[r].hosts)
            /\ \A i \in 1..Len(dns[r].hosts) :
                   /\ dns[r].results[i].host = dns[r].hosts[i]
                   /\ dns[r].results[i].status = dns[r].status[i]
                   /\ dns[r].results[i].status \in Statuses
            /\ dns[r].total_resolved =
                   Cardinality({ i \in 1..Len(dns[r].hosts) :
                                   dns[r].status[i] = "success" })
            /\ dns[r].total_resolved + dns[r].total_errors = Len(dns[r].hosts)

\* a call for two hosts returned one success and one timeout while another
\* call, for no host, returned an empty response
C27_Witness ==
    /\ dns[1].pc = "returned"
    /\ dns[1].hosts = << << "a" >>, << "b" >> >>
    /\ dns[1].status = << "timeout", "success" >>
    /\ dns[1].total_resolved = 1 /\ dns[1].total_errors = 1
    /\ dns[2].pc = "returned"
    /\ dns[2].hosts = << >>
    /\ dns[2].results = << >>
    /\ dns[2].total_resolved = 0 /\ dns[2].total_errors = 0

\* a request that is a CONNECT with an address of a known type, whole
well_formed_connect(request) ==
    /\ Len(request) >= 7
    /\ request[1] = 5
    /\ request[2] = 1
    /\ \/ request[4] = 1 /\ Len(request) >= 10
       \/ request[4] = 3 /\ Len(request) >= 5 + request[5] + 2
       \/ request[4] = 4 /\ Len(request) >= 22

\* the steps a connection handler may take
HandlerSteps ==
    { << "none", "greeting" >>, << "greeting", "request" >>,
      << "greeting", "closed" >>, << "request", "relaying" >>,
      << "request", "closed" >>, << "relaying", "closed" >> }

\* C28: a connection handler only moves forward, from the greeting to the
\* request, from the request (through the dial) to relaying, and from any
\* of them to closed.  It dials the destination only after it wrote the
\* method reply [5, 0] and read a well formed CONNECT request; it relays
\* only after it dialed and wrote the success reply; and it writes at most
\* one request reply, after which it writes no other.
C28_HandlerOnlyMovesForward ==
    [][ \A i \in 1..MaxConns :
          LET before == conns[i]
              after == conns'[i]
          IN  /\ after.pc # before.pc =>
                     << before.pc, after.pc >> \in HandlerSteps
              /\ after.dest_dialed =>
                     /\ before.pc \in { "request", "relaying", "closed" }
                     /\ SubSeq(after.sent, 1, 2) = << 5, 0 >>
                     /\ after.request_read
                     /\ well_formed_connect(after.request)
              /\ after.pc = "relaying" =>
                     /\ after.dest_dialed
                     /\ Len(after.sent) \in { 12, 24 }
                     /\ SubSeq(after.sent, 3, 5) = << 5, 0, 0 >>
              /\ Len(after.sent) \in { 0, 2, 12, 24 }
              /\ Len(after.sent) > 2 => SubSeq(after.sent, 1, 2) = << 5, 0 >>
              /\ Len(before.sent) > 2 => after.sent = before.sent ]_vars

\* one connection relays after a success reply for a resolved domain while
\* another was closed after the dial failed and the failure reply was
\* written
C28_Witness ==
    /\ conns[1].pc = "relaying"
    /\ conns[1].request = << 5, 1, 0, 3, 3, 97, 46, 98, 0, 80 >>
    /\ conns[1].sent = << 5, 0, 5, 0, 0, 1 >> \o RESOLVED_IP \o << 0, 80 >>
    /\ conns[2].pc = "closed"
    /\ conns[2].dest_dialed
    /\ conns[2].sent = << 5, 0, 5, 1, 0, 1, 0, 0, 0, 0, 0, 0 >>

\* C30: a CONNECT request that names a domain of 1 to 255 bytes, read whole
\* (7 + L bytes), is never turned away for its length: the handler decodes
\* the domain and the port and goes on to resolve the domain.
C30_EveryDomainLengthIsAccepted ==
    ret.op = "handle_request" =>
        ret.status \notin { "request_too_short", "bad_domain_length" }

\* C34: remove_rule(id) on a rule that exists returns true and takes that
\* rule, and no other, out of the rule list: the other rules keep their
\* content and their order, and the proxies, global_enabled and both id
\* counters stay as they were.  On an id no rule has it returns false and
\* leaves the registry as it was.
C34_RemoveRuleRemovesOnlyThatRule ==
    [][ ret'.op = "remove_rule" =>
          LET id == ret'.id
              kept(r) == r.id # id
              known == \E i \in 1..Len(proxy_manager.rules) :
                           proxy_manager.rules[i].id = id
          IN  IF known
              THEN /\ ret'.ok
                   /\ proxy_manager'.rules = SelectSeq(proxy_manager.rules, kept)
                   /\ Len(proxy_manager'.rules) = Len(proxy_manager.rules) - 1
                   /\ proxy_manager'.proxies = proxy_manager.proxies
                   /\ proxy_manager'.global_enabled = proxy_manager.global_enabled
                   /\ proxy_manager'.next_proxy_id = proxy_manager.next_proxy_id
                   /\ proxy_manager'.next_rule_id = proxy_manager.next_rule_id
              ELSE /\ ~ret'.ok
                   /\ proxy_manager' = proxy_manager ]_vars

\* the first of two rules was removed: the second is still there, and so is
\* the proxy
C34_Witness ==
    /\ ret.op = "remove_rule"
    /\ ret.ok
    /\ ret.id = 1
    /\ Len(proxy_manager.rules) = 1
    /\ proxy_manager.rules[1].id = 2
    /\ Len(proxy_manager.proxies) = 1
    /\ proxy_manager.next_rule_id = 3

\* 100.64.0.0/10: 100.64.0.0 through 100.127.255.255
in_cgnat_range(ip) == ip[1] = 100 /\ ip[2] >= 64 /\ ip[2] <= 127

\* "100.64.c.d"
cgnat_name(ip) ==
    CGNAT_PREFIX \o octet_to_string(ip[3]) \o << "." >> \o octet_to_string(ip[4])

\* C33: the hostname derived for a destination is the synthetic name
\* "100.64.c.d", built from its last two octets, exactly when the
\* destination lies in 100.64.0.0/10.
C33_CgnatRangeGetsSyntheticName ==
    /\ ret.op = "reverse_dns_lookup" =>
           (in_cgnat_range(ret.addr) <=> ret.domain = Some(cgnat_name(ret.addr)))
    /\ ret.op = "derived_hostname" =>
           (in_cgnat_range(ret.addr) <=> ret.name = cgnat_name(ret.addr))

\* C36: whenever RealTrafficProxy's matches_pattern accepts the hostname
\* of the destination for a non-empty trimmed sub-pattern of an enabled
\* rule, could_match_any_rule is true for that hostname, and
\* should_proxy_connection returns what its rule loop returns without the
\* pre-filter.
C36_PrefilterIsSound ==
    ( /\ ret.op = "RP_should_proxy_connection"
      /\ proxy_manager.global_enabled
      /\ \E i \in 1..Len(proxy_manager.rules) :
             /\ proxy_manager.rules[i].enabled
             /\ RP_any_match(proxy_manager.rules[i], derived_hostname(ret.addr)) )
    => /\ could_match_any_rule(derived_hostname(ret.addr), proxy_manager.rules)
       /\ ret.proxy = RP_rule_loop(proxy_manager, derived_hostname(ret.addr), 1)

\* C40: when proxy_data returns, no copy holds a chunk that it read from
\* one peer and did not write to the other.
C40_RelayLosesNoData ==
    (relay.kind = "proxy_data" /\ relay.pc = "returned") =>
        \A p \in Peers : relay.buffered[p] = 0

\* C31: a loop thread that waits for the network, for a child process or
\* for time to pass holds none of the four locks, and no thread ever holds
\* two of them.
C31_NoLockHeldWhileBlocking ==
    \A k \in LoopThreads :
        /\ threads[k].pc \in Blocking => threads[k].holds = {}
        /\ Cardinality(threads[k].holds) <= 1

\* the TCP loop is inside route_tcp_through_socks5 for a flow the registry
\* matched while the DNS loop is inside the critical section on the counter
C31_Witness ==
    /\ threads["tcp"].pc = "route"
    /\ threads["tcp"].proxy # None
    /\ threads["tcp"].holds = {}
    /\ threads["dns"].pc = "draw_locked"
    /\ threads["dns"].holds = { "connection_counter" }

\* the ids the threads hold for flows not recorded yet
ids_in_flight == { k \in LoopThreads : threads[k].connection_id # 0 }

\* no id was handed out twice
ids_are_distinct ==
    /\ \A i, j \in 1..Len(appended) : i # j => appended[i].id # appended[j].id
    /\ \A k, l \in ids_in_flight :
           k # l => threads[k].connection_id # threads[l].connection_id
    /\ \A k \in ids_in_flight, i \in 1..Len(appended) :
           appended[i].id # threads[k].connection_id

\* C32: however the DNS, TCP and UDP loops interleave, the counter never
\* decreases, and the connection ids drawn from it, those of the records
\* pushed to the log and those held for flows still being handled, are
\* pairwise distinct.
C32_ConnectionIdsAreDistinct ==
    [][ /\ connection_counter' >= connection_counter
        /\ ids_are_distinct' ]_vars

\* two records were pushed by threads that drew their ids in one order and
\* took the log's lock in the other
C32_Witness ==
    /\ connection_counter = 2
    /\ Len(appended) = 2
    /\ appended[1].id = 2
    /\ appended[2].id = 1

\* C38: the entries of the log are in the order of their ids.
C38_LogIsOrderedById ==
    \A i, j \in 1..Len(intercepted_connections) :
        i < j => intercepted_connections[i].id < intercepted_connections[j].id

\* C35: a flow that a loop is about to record as Proxied went through a
\* SOCKS5 handshake and CONNECT to the proxy the registry gave for it.
C35_ProxiedMeansTunnelled ==
    \A k \in LoopThreads :
        (threads[k].pc \in { "record", "record_locked" }
           /\ threads[k].status = "Proxied")
        => threads[k].tunnelled

\* the loops of kind k that have not returned
alive(k) == { g \in Generations : loops[g][k] \in Active }

\* C37: whatever the timing of stop() and start(), the orchestrator ends up
\* with at most one DNS loop, one TCP loop and one UDP loop alive.
C37_OneLoopOfEachKindSurvives ==
    <>[](\A k \in LoopThreads : Cardinality(alive(k)) <= 1)

\* what the handler does with the greeting and the request of the client when
\* each arrives whole in a read of its own
one_message_per_read(connected) ==
    LET g == handle_greeting(wire.greeting)
        r == handle_request(wire.request, Some(<< RESOLVED_IP >>), connected)
    IN  [ sent |-> g.reply \o r.reply,
          pc |-> IF r.result = "relaying" THEN "relaying" ELSE "closed",
          result |-> IF r.result = "relaying" THEN "" ELSE r.result ]

\* C39: however the bytes of a well-formed greeting and CONNECT request are
\* cut into reads, the handler ends as it does when each message arrives in
\* one read, and it does not wait for bytes it has already consumed.
C39_SegmentationDoesNotMatter ==
    wire.greeting # << >> =>
        /\ conns[1].pc \in { "relaying", "closed" } =>
               \E connected \in BOOLEAN :
                   LET whole == one_message_per_read(connected)
                   IN  /\ conns[1].sent = whole.sent
                       /\ conns[1].pc = whole.pc
                       /\ conns[1].result = whole.result
        /\ (wire.in_flight = << >> /\ wire.unread = << >>) =>
               conns[1].pc \in { "relaying", "closed" }

===========================================================================
